---- MODULE Spec2Model ----
(***************************************************************************)
(* caniusenow: change detection over two index snapshots, trigger          *)
(* evaluation and the notification run over the tracking store.            *)
(*                                                                         *)
(* Percentages are whole percentage points (the detector's "> 1.0" is      *)
(* "> 1" on them).  JavaScript `false` as a baseline tier is the string    *)
(* "false"; an absent optional field is "" (strings), 0 (numbers) or an    *)
(* empty sequence, with a has-flag where the code tests for presence.      *)
(***************************************************************************)
EXTENDS Integers, Sequences, FiniteSets, TLC

VARIABLES
  previousIndex,   \* public/data/index.json at HEAD~1 (exists = FALSE: no previous commit)
  currentIndex,    \* public/data/index.json at HEAD, with the per-feature files
  changeReport,    \* data/change-report.json
  store,           \* table user_feature_tracking, by row id
  stage,           \* pipeline stage: "built", "detected", "notified"
  pc,              \* notification run: "idle", "changes", "trackings"
  ci,              \* notification run: position in report.changes
  trackingsQ,      \* notification run: rows returned by the query for changes[ci]
  ti,              \* notification run: position in trackingsQ
  sent,            \* per row id: messages accepted by the notification service
  outcome,         \* per row id: what the latest notification run logged for it
  pendingRetry,    \* row ids still active whose delivery was rejected in the run before the latest build
  sources,         \* normalize-data: the loaded source files (SourceFiles)
  features,        \* normalize-data: the feature registry, a Map in insertion order
  stats,           \* normalize-data: PipelineStats
  step,            \* normalize-data: the stage main is in and the record that stage is at
  call,            \* a call of an exported function: its name and arguments
  ret,             \* the value that call returned
  files            \* normalize-data: public/data, index.json and the files of features/

notifyVars == <<previousIndex, currentIndex, changeReport, store, stage, pc, ci,
                trackingsQ, ti, sent, outcome, pendingRetry>>

pipelineVars == <<sources, features, stats, step, call, ret, files>>

vars == <<previousIndex, currentIndex, changeReport, store, stage, pc, ci,
          trackingsQ, ti, sent, outcome, pendingRetry,
          sources, features, stats, step, call, ret, files>>

(***************************************************************************)
(* Bounds                                                                  *)
(***************************************************************************)
MaxUsage == 2
MaxSent == 2

(***************************************************************************)
(* Value sets                                                              *)
(***************************************************************************)
Features == {"abc", "grid"}
FeatureOrder == <<"abc", "grid">>

\* short browser keys kept in the index, in the order generateIndex writes them
IndexBrowsers == <<"chr", "ffx">>
IndexBrowserSet == {IndexBrowsers[i] : i \in 1..Len(IndexBrowsers)}
\* keys of a per-feature detail file: the index keys plus the excluded browsers
DetailBrowserSet == IndexBrowserSet \cup {"opr"}

StatusTokens == {"y", "a", "n", "p"}
BaselineTiers == {"high", "low", "false"}
UsageValues == 0..MaxUsage
TrackingOrder == <<"t1", "t2">>
TrackingIds == {TrackingOrder[i] : i \in 1..Len(TrackingOrder)}

\* JavaScript undefined (also null where the code does not tell them apart)
Undefined == "undefined"

NoSources == [caniuse |-> <<>>, webFeatures |-> <<>>, mdnBcd |-> <<>>, usage |-> <<>>]

ZeroStats ==
  [caniuse |-> [total |-> 0, processed |-> 0, errors |-> 0],
   webFeatures |-> [total |-> 0, new |-> 0, merged |-> 0, errors |-> 0],
   mdnBcd |-> [total |-> 0, new |-> 0, merged |-> 0, errors |-> 0],
   output |-> [features |-> 0, indexSize |-> 0]]

\* an output directory without index.json and without feature files
NoFiles == [index |-> <<>>, indexExists |-> FALSE, details |-> <<>>]

NoCall == [fn |-> "", args |-> <<>>]

NoReturn == [returned |-> FALSE, value |-> Undefined]

\* normalize-data is not running and no exported function is being called
PipelineIdle ==
  /\ sources = NoSources
  /\ features = <<>>
  /\ stats = ZeroStats
  /\ step = [stage |-> "idle", i |-> 0]
  /\ call = NoCall
  /\ ret = NoReturn
  /\ files = NoFiles

(***************************************************************************)
(* Triggers, as the trigger builder's form produces them                   *)
(***************************************************************************)
FormStates ==
  [triggerType : {"browser_support", "browser_version", "usage_threshold", "baseline_status"},
   browser : DetailBrowserSet \cup {"chrome"},
   status : {"full", "partial"},
   version : {"", "130"},
   usageType : {"full", "total", "combined"},
   threshold : 1..MaxUsage,
   baselineStatus : {"low", "high"}]

BlankTrigger ==
  [type |-> "", browser |-> "", version |-> "", targetStatus |-> "",
   usageType |-> "", threshold |-> 0]

\* addTrigger: the trigger built from the form state; type "" when it returns null
addTrigger(form) ==
  IF form.triggerType = "browser_support"
  THEN [BlankTrigger EXCEPT !.type = "browser_support", !.browser = form.browser,
                            !.targetStatus = form.status]
  ELSE IF form.triggerType = "browser_version"
  THEN IF form.version = ""
       THEN BlankTrigger
       ELSE [BlankTrigger EXCEPT !.type = "browser_version", !.browser = form.browser,
                                 !.version = form.version, !.targetStatus = form.status]
  ELSE IF form.triggerType = "usage_threshold"
  THEN [BlankTrigger EXCEPT !.type = "usage_threshold", !.usageType = form.usageType,
                            !.threshold = form.threshold]
  ELSE [BlankTrigger EXCEPT !.type = "baseline_status", !.targetStatus = form.baselineStatus]

UiTriggers == {addTrigger(f) : f \in FormStates} \ {BlankTrigger}

(***************************************************************************)
(* Snapshots                                                               *)
(***************************************************************************)
\* one entry of index.json together with usage.global of its detail file; here all of
\* the usage is full support
FeatureRecords(usages, supports, tiers) ==
  {[present |-> TRUE, usage |-> u, full |-> u, support |-> s, baseline |-> b] :
     u \in usages, s \in supports, b \in tiers}

AbsentFeature ==
  [present |-> FALSE, usage |-> 0, full |-> 0,
   support |-> [b \in IndexBrowserSet |-> "n"], baseline |-> "false"]

NoIndex == [exists |-> FALSE, features |-> [f \in Features |-> AbsentFeature]]

NoReport == [exists |-> FALSE, totalChanges |-> 0, changes |-> <<>>]

NoRow ==
  [exists |-> FALSE, feature_id |-> "", user_email |-> "", triggers |-> <<>>,
   status |-> "", notified_at |-> FALSE]

(***************************************************************************)
(* Change detection (scripts/detect-changes.ts)                            *)
(***************************************************************************)
Abs(x) == IF x < 0 THEN -x ELSE x

NoUsageChange == [old |-> 0, new |-> 0, delta |-> 0]
NoBaselineChange == [old |-> "", new |-> ""]

RECURSIVE supportChangesFrom(_, _, _)
supportChangesFrom(curr, prev, i) ==
  IF i > Len(IndexBrowsers) THEN <<>>
  ELSE LET browser == IndexBrowsers[i]
           rest == supportChangesFrom(curr, prev, i + 1)
       IN IF curr.support[browser] # prev.support[browser]
          THEN <<[browser |-> browser, old |-> prev.support[browser],
                  new |-> curr.support[browser]]>> \o rest
          ELSE rest

\* variant: the usage test written ">= 1.0"
featureChanges_AtLeastOne(curr, prev) ==
  LET usageDelta == Abs(curr.usage - prev.usage)
  IN [hasUsage |-> usageDelta >= 1,
      usage |-> IF usageDelta >= 1
                THEN [old |-> prev.usage, new |-> curr.usage, delta |-> curr.usage - prev.usage]
                ELSE NoUsageChange,
      support |-> supportChangesFrom(curr, prev, 1),
      hasBaseline |-> curr.baseline # prev.baseline,
      baseline |-> IF curr.baseline # prev.baseline
                   THEN [old |-> prev.baseline, new |-> curr.baseline]
                   ELSE NoBaselineChange]

\* the `changes` object built for one feature present in both snapshots
featureChanges(curr, prev) ==
  LET usageDelta == Abs(curr.usage - prev.usage)
  IN [hasUsage |-> usageDelta > 1,
      usage |-> IF usageDelta > 1
                THEN [old |-> prev.usage, new |-> curr.usage, delta |-> curr.usage - prev.usage]
                ELSE NoUsageChange,
      support |-> supportChangesFrom(curr, prev, 1),
      hasBaseline |-> curr.baseline # prev.baseline,
      baseline |-> IF curr.baseline # prev.baseline
                   THEN [old |-> prev.baseline, new |-> curr.baseline]
                   ELSE NoBaselineChange]

hasAnyChange(ch) == ch.hasUsage \/ Len(ch.support) > 0 \/ ch.hasBaseline

RECURSIVE detectChangesFrom(_, _, _)
detectChangesFrom(current, previous, i) ==
  IF i > Len(FeatureOrder) THEN <<>>
  ELSE LET id == FeatureOrder[i]
           rest == detectChangesFrom(current, previous, i + 1)
       IN IF ~current[id].present THEN rest
          ELSE IF ~previous[id].present THEN rest
          ELSE LET ch == featureChanges(current[id], previous[id])
               IN IF hasAnyChange(ch)
                  THEN <<[featureId |-> id, changes |-> ch]>> \o rest
                  ELSE rest

\* variant: without the skip of a feature that prevMap does not hold, the new feature
\* is compared with an empty record
RECURSIVE detectChangesFrom_ReportNew(_, _, _)
detectChangesFrom_ReportNew(current, previous, i) ==
  IF i > Len(FeatureOrder) THEN <<>>
  ELSE LET id == FeatureOrder[i]
           rest == detectChangesFrom_ReportNew(current, previous, i + 1)
       IN IF ~current[id].present THEN rest
          ELSE LET ch == featureChanges(current[id], previous[id])
               IN IF hasAnyChange(ch)
                  THEN <<[featureId |-> id, changes |-> ch]>> \o rest
                  ELSE rest

detectChanges_ReportNew(current, previous) == detectChangesFrom_ReportNew(current, previous, 1)

detectChanges(current, previous) == detectChangesFrom(current, previous, 1)

\* main of detect-changes: the report written for HEAD against HEAD~1
writtenReport(current, previous) ==
  IF ~previous.exists
  THEN [exists |-> TRUE, totalChanges |-> 0, changes |-> <<>>]
  ELSE LET changes == detectChanges(current.features, previous.features)
       IN [exists |-> TRUE, totalChanges |-> Len(changes), changes |-> changes]

(***************************************************************************)
(* Trigger evaluation (the notification script)                            *)
(***************************************************************************)
\* usage.global of the per-feature file loaded by loadFullFeature
usageGlobal(fullFeature) ==
  [full |-> fullFeature.full, partial |-> fullFeature.usage - fullFeature.full,
   total |-> fullFeature.usage]

\* variant: "currently at or above" without the crossing test
checkUsageThreshold_NoCrossing(trigger, fullFeature, changes) ==
  IF ~changes.hasUsage THEN FALSE
  ELSE LET currentUsage ==
             IF trigger.usageType = "full" THEN usageGlobal(fullFeature).full
             ELSE IF trigger.usageType = "partial" THEN usageGlobal(fullFeature).partial
             ELSE usageGlobal(fullFeature).total
       IN currentUsage >= trigger.threshold

checkUsageThreshold(trigger, fullFeature, changes) ==
  IF ~changes.hasUsage THEN FALSE
  ELSE LET currentUsage ==
             IF trigger.usageType = "full" THEN usageGlobal(fullFeature).full
             ELSE IF trigger.usageType = "partial" THEN usageGlobal(fullFeature).partial
             ELSE usageGlobal(fullFeature).total
           previousUsage ==
             IF trigger.usageType \in {"full", "partial"}
             THEN currentUsage - changes.usage.delta
             ELSE changes.usage.old
           meetsThreshold == currentUsage >= trigger.threshold
           crossedThreshold == previousUsage < trigger.threshold
       IN meetsThreshold /\ crossedThreshold

\* changes.support.find(s => s.browser === browser): index of the first match, 0 if none
RECURSIVE findBrowserChange(_, _, _)
findBrowserChange(support, browser, i) ==
  IF i > Len(support) THEN 0
  ELSE IF support[i].browser = browser THEN i
  ELSE findBrowserChange(support, browser, i + 1)

checkBrowserSupport(trigger, indexFeature, changes) ==
  IF Len(changes.support) = 0 THEN FALSE
  ELSE LET k == findBrowserChange(changes.support, trigger.browser, 1)
       IN IF k = 0 THEN FALSE
          ELSE LET targetStatus == IF trigger.targetStatus = "y" THEN "y" ELSE "a"
               IN changes.support[k].new = targetStatus

\* variant: the new tier must equal the target, also for target low
checkBaselineStatus_Exact(trigger, indexFeature, changes) ==
  IF ~changes.hasBaseline THEN FALSE
  ELSE changes.baseline.new = trigger.targetStatus

checkBaselineStatus(trigger, indexFeature, changes) ==
  IF ~changes.hasBaseline THEN FALSE
  ELSE IF trigger.targetStatus = "low"
  THEN changes.baseline.new = "low" \/ changes.baseline.new = "high"
  ELSE changes.baseline.new = trigger.targetStatus

\* the switch of evaluateTriggers: a type without a case leaves isMet false
isMet(trigger, indexFeature, fullFeature, changes) ==
  IF trigger.type = "usage_threshold" THEN checkUsageThreshold(trigger, fullFeature, changes)
  ELSE IF trigger.type = "browser_support" THEN checkBrowserSupport(trigger, indexFeature, changes)
  ELSE IF trigger.type = "baseline_status" THEN checkBaselineStatus(trigger, indexFeature, changes)
  ELSE FALSE

RECURSIVE evaluateTriggersFrom(_, _, _, _, _)
evaluateTriggersFrom(triggers, indexFeature, fullFeature, changes, i) ==
  IF i > Len(triggers) THEN <<>>
  ELSE LET rest == evaluateTriggersFrom(triggers, indexFeature, fullFeature, changes, i + 1)
       IN IF isMet(triggers[i], indexFeature, fullFeature, changes)
          THEN <<triggers[i]>> \o rest
          ELSE rest

evaluateTriggers(triggers, indexFeature, fullFeature, changes) ==
  evaluateTriggersFrom(triggers, indexFeature, fullFeature, changes, 1)

(***************************************************************************)
(* The tracking store                                                      *)
(***************************************************************************)
\* the selected columns of the rows with the given ids, in the order of the table
RECURSIVE selectFrom(_, _, _)
selectFrom(rows, ids, i) ==
  IF i > Len(TrackingOrder) THEN <<>>
  ELSE LET id == TrackingOrder[i]
           rest == selectFrom(rows, ids, i + 1)
       IN IF id \in ids
          THEN <<[id |-> id, user_email |-> rows[id].user_email,
                  feature_id |-> rows[id].feature_id, triggers |-> rows[id].triggers,
                  status |-> rows[id].status]>> \o rest
          ELSE rest

\* variant: the query without .eq("status", "active")
queryTrackings_AnyStatus(rows, featureId) ==
  selectFrom(rows, {id \in TrackingIds : rows[id].exists /\ rows[id].feature_id = featureId}, 1)

\* variant: the query without .eq("feature_id", ...)
queryTrackings_AnyFeature(rows, featureId) ==
  selectFrom(rows, {id \in TrackingIds : rows[id].exists /\ rows[id].status = "active"}, 1)

\* .from("user_feature_tracking").select(...).eq("feature_id", id).eq("status", "active")
queryActiveTrackings(rows, featureId) ==
  selectFrom(rows, {id \in TrackingIds : /\ rows[id].exists
                                         /\ rows[id].feature_id = featureId
                                         /\ rows[id].status = "active"}, 1)

\* .update({status: "notified", notified_at: now}).eq("id", id): no row, no effect
updateNotified(rows, id) ==
  IF rows[id].exists
  THEN [rows EXCEPT ![id].status = "notified", ![id].notified_at = TRUE]
  ELSE rows

NoOutcome == [t \in TrackingIds |-> "none"]

(***************************************************************************)
(* The notification run, one step per awaited call                         *)
(***************************************************************************)
RunIdle == pc = "idle"

\* main up to the loop: load the report, return early without one or without changes
StartNotify ==
  /\ pc = "idle"
  /\ stage \in {"detected", "notified"} \/ (stage = "built" /\ ~changeReport.exists)
  /\ \A t \in TrackingIds : sent[t] < MaxSent
  /\ outcome' = NoOutcome
  /\ IF ~changeReport.exists
     THEN UNCHANGED <<pc, ci, stage>>
     ELSE IF changeReport.totalChanges = 0
     THEN /\ stage' = "notified"
          /\ UNCHANGED <<pc, ci>>
     ELSE /\ pc' = "changes"
          /\ ci' = 1
          /\ UNCHANGED stage
  /\ UNCHANGED <<previousIndex, currentIndex, changeReport, store, trackingsQ, ti, sent,
                 pendingRetry>>
  /\ UNCHANGED pipelineVars

\* leaving change number ci: the next change, or the summary at the end of main
NextChange ==
  IF ci + 1 > Len(changeReport.changes)
  THEN /\ pc' = "idle"
       /\ ci' = 0
       /\ stage' = "notified"
  ELSE /\ pc' = "changes"
       /\ ci' = ci + 1
       /\ UNCHANGED stage

\* one iteration of the loop over report.changes, up to the loop over the trackings
QueryTrackings ==
  /\ pc = "changes"
  /\ LET change == changeReport.changes[ci]
         indexFeature == currentIndex.features[change.featureId]
     IN IF ~indexFeature.present
        THEN NextChange /\ UNCHANGED <<trackingsQ, ti>>
        ELSE \E queryOk \in BOOLEAN :
               IF ~queryOk
               THEN NextChange /\ UNCHANGED <<trackingsQ, ti>>
               ELSE LET trackings == queryActiveTrackings(store, change.featureId)
                    IN IF Len(trackings) = 0
                       THEN NextChange /\ UNCHANGED <<trackingsQ, ti>>
                       ELSE /\ trackingsQ' = trackings
                            /\ ti' = 1
                            /\ pc' = "trackings"
                            /\ UNCHANGED <<ci, stage>>
  /\ UNCHANGED <<previousIndex, currentIndex, changeReport, store, sent, outcome, pendingRetry>>
  /\ UNCHANGED pipelineVars

\* leaving tracking number ti: the next tracking, or the next change
NextTracking ==
  IF ti + 1 > Len(trackingsQ)
  THEN /\ NextChange
       /\ trackingsQ' = <<>>
       /\ ti' = 0
  ELSE /\ ti' = ti + 1
       /\ UNCHANGED <<pc, ci, stage, trackingsQ>>

\* variant: no try/catch around the send, the rejection ends main
AfterRejected_Abort ==
  /\ pc' = "idle"
  /\ ci' = 0
  /\ trackingsQ' = <<>>
  /\ ti' = 0
  /\ UNCHANGED stage

\* the catch block: log the failure, go on with the loop
AfterRejected == NextTracking

\* one iteration of the loop over the trackings: evaluate, send, update the status
ProcessTracking ==
  /\ pc = "trackings"
  /\ LET change == changeReport.changes[ci]
         indexFeature == currentIndex.features[change.featureId]
         fullFeature == currentIndex.features[change.featureId]
         tracking == trackingsQ[ti]
         metTriggers == evaluateTriggers(tracking.triggers, indexFeature, fullFeature,
                                         change.changes)
     IN IF tracking.user_email = ""
        THEN /\ outcome' = [outcome EXCEPT ![tracking.id] = "noemail"]
             /\ UNCHANGED <<store, sent, pendingRetry>>
             /\ NextTracking
        ELSE IF Len(metTriggers) = 0
        THEN /\ outcome' = [outcome EXCEPT ![tracking.id] = "notmet"]
             /\ UNCHANGED <<store, sent, pendingRetry>>
             /\ NextTracking
        ELSE \E sendOk \in BOOLEAN :
               IF sendOk
               THEN /\ sent' = [sent EXCEPT ![tracking.id] = @ + 1]
                    /\ outcome' = [outcome EXCEPT ![tracking.id] = "sent"]
                    /\ pendingRetry' = pendingRetry \ {tracking.id}
                    /\ \E updateOk \in BOOLEAN :
                         store' = IF updateOk THEN updateNotified(store, tracking.id)
                                  ELSE store
                    /\ NextTracking
               ELSE /\ outcome' = [outcome EXCEPT ![tracking.id] = "rejected"]
                    /\ UNCHANGED <<store, sent, pendingRetry>>
                    /\ AfterRejected
  /\ UNCHANGED <<previousIndex, currentIndex, changeReport>>
  /\ UNCHANGED pipelineVars

(***************************************************************************)
(* The pipeline stages around the notification run                         *)
(***************************************************************************)
\* the build commits a regenerated index: HEAD becomes HEAD~1
PublishIndexFrom(snapshots) ==
  /\ pc = "idle"
  /\ stage \in {"detected", "notified"}
  /\ \E snapshot \in snapshots :
       currentIndex' = [exists |-> TRUE, features |-> snapshot]
  /\ previousIndex' = currentIndex
  /\ stage' = "built"
  /\ pendingRetry' = {t \in TrackingIds : outcome[t] = "rejected" /\ store[t].exists
                                          /\ store[t].status = "active"}
  /\ outcome' = NoOutcome
  /\ UNCHANGED <<changeReport, store, pc, ci, trackingsQ, ti, sent>>
  /\ UNCHANGED pipelineVars

\* main of detect-changes
DetectChanges ==
  /\ pc = "idle"
  /\ stage = "built"
  /\ changeReport' = writtenReport(currentIndex, previousIndex)
  /\ stage' = "detected"
  /\ UNCHANGED <<previousIndex, currentIndex, store, pc, ci, trackingsQ, ti, sent, outcome,
                 pendingRetry>>
  /\ UNCHANGED pipelineVars

(***************************************************************************)
(* User actions on the tracking store (featureTrackingStore)               *)
(***************************************************************************)
DeletedRow == [NoRow EXCEPT !.status = "deleted"]

RECURSIVE firstFreeFrom(_, _)
firstFreeFrom(rows, i) ==
  IF i > Len(TrackingOrder) THEN ""
  ELSE IF rows[TrackingOrder[i]] = NoRow THEN TrackingOrder[i]
  ELSE firstFreeFrom(rows, i + 1)

\* the id the store gives the next inserted row; "" when the modelled ids are used up
freshId(rows) == firstFreeFrom(rows, 1)

addTracking(rows, featureId, userEmail, triggers) ==
  [rows EXCEPT ![freshId(rows)] =
     [exists |-> TRUE, feature_id |-> featureId, user_email |-> userEmail,
      triggers |-> triggers, status |-> "active", notified_at |-> FALSE]]

AddTrackingFrom(triggerLists) ==
  /\ freshId(store) # ""
  /\ \E featureId \in Features, triggers \in triggerLists :
       /\ Len(triggers) > 0
       /\ store' = addTracking(store, featureId, "user@example.com", triggers)
  /\ UNCHANGED <<previousIndex, currentIndex, changeReport, stage, pc, ci, trackingsQ, ti,
                 sent, outcome, pendingRetry>>
  /\ UNCHANGED pipelineVars

\* TrackingCard offers "Mark Complete" on a notified tracking
MarkAsCompleted ==
  /\ \E id \in TrackingIds :
       /\ store[id].exists
       /\ store[id].status = "notified"
       /\ store' = [store EXCEPT ![id].status = "completed"]
  /\ UNCHANGED <<previousIndex, currentIndex, changeReport, stage, pc, ci, trackingsQ, ti,
                 sent, outcome, pendingRetry>>
  /\ UNCHANGED pipelineVars

DeleteTracking ==
  /\ \E id \in TrackingIds :
       /\ store[id].exists
       /\ store' = [store EXCEPT ![id] = DeletedRow]
  /\ UNCHANGED <<previousIndex, currentIndex, changeReport, stage, pc, ci, trackingsQ, ti,
                 sent, outcome, pendingRetry>>
  /\ UNCHANGED pipelineVars

(***************************************************************************)
(* Specification of the whole workflow: builds, detections, notification   *)
(* runs and user actions, over snapshots whose usage varies                *)
(***************************************************************************)
UsageCombined1 ==
  [BlankTrigger EXCEPT !.type = "usage_threshold", !.usageType = "combined", !.threshold = 1]
WorkflowTriggerLists == {<<UsageCombined1>>}

WorkflowRecords ==
  FeatureRecords(UsageValues, {[b \in IndexBrowserSet |-> "n"]}, {"false"})
WorkflowSnapshots == [Features -> WorkflowRecords]

\* a tracking stored before the user_email column existed
LegacyRow ==
  [exists |-> TRUE, feature_id |-> "abc", user_email |-> "", triggers |-> <<UsageCombined1>>,
   status |-> "active", notified_at |-> FALSE]

PublishIndex == PublishIndexFrom(WorkflowSnapshots)
AddTracking == AddTrackingFrom(WorkflowTriggerLists)

Init ==
  /\ previousIndex = NoIndex
  /\ \E snapshot \in WorkflowSnapshots :
       currentIndex = [exists |-> TRUE, features |-> snapshot]
  /\ changeReport = NoReport
  /\ store \in {[t \in TrackingIds |-> NoRow],
               [t \in TrackingIds |-> IF t = TrackingOrder[1] THEN LegacyRow ELSE NoRow]}
  /\ stage = "built"
  /\ pc = "idle"
  /\ ci = 0
  /\ trackingsQ = <<>>
  /\ ti = 0
  /\ sent = [t \in TrackingIds |-> 0]
  /\ outcome = NoOutcome
  /\ pendingRetry = {}
  /\ PipelineIdle

Next ==
  \/ PublishIndex
  \/ DetectChanges
  \/ StartNotify
  \/ QueryTrackings
  \/ ProcessTracking
  \/ AddTracking
  \/ MarkAsCompleted
  \/ DeleteTracking

Spec == Init /\ [][Next]_vars

(***************************************************************************)
(* Specification of one detection and one notification run for a single    *)
(* tracking holding one trigger built by the form, over every pair of      *)
(* snapshots of its feature                                                *)
(***************************************************************************)
EvalUsageValues == 0..(MaxUsage + 1)
EvalSupports == {[b \in IndexBrowserSet |-> IF b = IndexBrowsers[1] THEN s ELSE "n"] :
                   s \in StatusTokens}
EvalRecords == FeatureRecords(EvalUsageValues, EvalSupports, BaselineTiers)
EvalOther == [present |-> TRUE, usage |-> 0, full |-> 0,
              support |-> [b \in IndexBrowserSet |-> "n"], baseline |-> "false"]
EvalSnapshots == {[f \in Features |-> IF f = "abc" THEN r ELSE EvalOther] : r \in EvalRecords}

InitEval ==
  /\ \E snapshot \in EvalSnapshots :
       previousIndex = [exists |-> TRUE, features |-> snapshot]
  /\ \E snapshot \in EvalSnapshots :
       currentIndex = [exists |-> TRUE, features |-> snapshot]
  /\ changeReport = NoReport
  /\ \E trigger \in UiTriggers :
       store = addTracking([t \in TrackingIds |-> NoRow], "abc", "user@example.com",
                           <<trigger>>)
  /\ stage = "built"
  /\ pc = "idle"
  /\ ci = 0
  /\ trackingsQ = <<>>
  /\ ti = 0
  /\ sent = [t \in TrackingIds |-> 0]
  /\ outcome = NoOutcome
  /\ pendingRetry = {}
  /\ PipelineIdle

NextEval ==
  \/ DetectChanges
  \/ StartNotify
  \/ QueryTrackings
  \/ ProcessTracking

SpecEval == InitEval /\ [][NextEval]_vars

(***************************************************************************)
(* Vocabulary of the properties                                            *)
(***************************************************************************)
\* the latest run logged "Notifying" for the row: its triggers fired
Fired(t) == outcome[t] \in {"sent", "rejected"}
\* the latest run evaluated the row's triggers
Evaluated(t) == outcome[t] \in {"notmet", "sent", "rejected"}
\* a notification run over the current report has finished
RunComplete == pc = "idle" /\ stage = "notified"

HasEntry(f) == \E i \in 1..Len(changeReport.changes) : changeReport.changes[i].featureId = f
EntryOf(f) ==
  changeReport.changes[CHOOSE i \in 1..Len(changeReport.changes) :
                         changeReport.changes[i].featureId = f].changes

\* the row holds exactly one trigger, of the given type
HoldsOne(t, type) ==
  /\ store[t].exists
  /\ Len(store[t].triggers) = 1
  /\ store[t].triggers[1].type = type
TriggerOf(t) == store[t].triggers[1]
PrevOf(t) == previousIndex.features[store[t].feature_id]
CurrOf(t) == currentIndex.features[store[t].feature_id]

\* the index token a target status of the form stands for
TokenOf(targetStatus) == IF targetStatus = "full" THEN "y" ELSE "a"

\* the change record lists a transition of the browser to the token
ListsTransitionTo(changes, browser, token) ==
  \E k \in 1..Len(changes.support) :
    changes.support[k].browser = browser /\ changes.support[k].new = token

(***************************************************************************)
(* Properties                                                              *)
(***************************************************************************)

\* C1 (as stated): at most one notification is ever sent for a given tracking, across
\* any sequence of notification runs.
C1_AtMostOneNotification == \A t \in TrackingIds : sent[t] <= 1

\* C1 (amended): once the status update that follows a send has been applied (the
\* tracking is notified, or later completed), no step of any run sends for that
\* tracking again; and a single run sends at most one message per tracking.  A second
\* message can only follow a send whose status update did not take effect.
C1_NoSendOnceNotified ==
  [][\A t \in TrackingIds :
       sent'[t] # sent[t] =>
         /\ sent'[t] = sent[t] + 1
         /\ store[t].status \notin {"notified", "completed"}
         /\ outcome[t] # "sent"]_vars

C1_Witness ==
  \E t \in TrackingIds, u \in TrackingIds :
    /\ t # u
    /\ store[t].exists /\ store[t].status = "notified" /\ sent[t] = 1
    /\ store[u].exists /\ store[u].feature_id = store[t].feature_id
    /\ outcome[u] = "sent" /\ outcome[t] = "none"
    /\ RunComplete

\* C2: a notification run evaluates, notifies or marks as notified only a tracking that
\* its query returned for the change at hand: a row that was active at query time and
\* whose feature id is that of an entry of the change report.
RunTouches(t) ==
  \/ sent'[t] # sent[t]
  \/ outcome'[t] \notin {outcome[t], "none"}
  \/ (store'[t].status = "notified" /\ store[t].status # "notified")

C2_OnlyActiveAndChanged ==
  [][\A t \in TrackingIds :
       RunTouches(t) =>
         /\ pc = "trackings"
         /\ trackingsQ[ti].id = t
         /\ trackingsQ[ti].status = "active"
         /\ trackingsQ[ti].feature_id = changeReport.changes[ci].featureId
         /\ HasEntry(trackingsQ[ti].feature_id)]_vars

C2_Witness ==
  \E t \in TrackingIds, u \in TrackingIds :
    /\ t # u
    /\ outcome[t] = "sent"
    /\ RunComplete
    /\ store[u].exists /\ store[u].status = "active" /\ outcome[u] = "none"
    /\ ~HasEntry(store[u].feature_id)

\* C3: a usage-threshold trigger on total usage fires only if the change record of the
\* feature carries a usage change, the current total is at or above the threshold and
\* the previous total is below it.
C3_UsageThresholdCrossing ==
  \A t \in TrackingIds :
    (/\ HoldsOne(t, "usage_threshold")
     /\ TriggerOf(t).usageType \in {"total", "combined"}
     /\ Fired(t))
    => /\ HasEntry(store[t].feature_id)
       /\ EntryOf(store[t].feature_id).hasUsage
       /\ CurrOf(t).usage >= TriggerOf(t).threshold
       /\ PrevOf(t).usage < TriggerOf(t).threshold

C3_Witness ==
  \E t \in TrackingIds :
    /\ HoldsOne(t, "usage_threshold")
    /\ TriggerOf(t).usageType = "total"
    /\ outcome[t] = "sent"
    /\ PrevOf(t).usage < TriggerOf(t).threshold

\* C4: whenever the total usage of a tracked feature is below the threshold in the
\* previous snapshot and at or above it in the current one, the detection plus
\* notification run over the two snapshots sends a notification to the tracking holding
\* that total-usage trigger, unless the service rejected the message.
C4_CrossingIsNotified ==
  \A t \in TrackingIds :
    (/\ RunComplete
     /\ HoldsOne(t, "usage_threshold")
     /\ TriggerOf(t).usageType \in {"total", "combined"}
     /\ PrevOf(t).present
     /\ PrevOf(t).usage < TriggerOf(t).threshold
     /\ CurrOf(t).usage >= TriggerOf(t).threshold
     /\ outcome[t] # "rejected")
    => sent[t] >= 1

\* C5: a browser-support trigger built by the form, on a browser the form offers, fires
\* exactly when the change record lists a transition of that browser whose new status
\* is the target: y for target full, a for target partial.
C5_BrowserSupportMatchesTarget ==
  \A t \in TrackingIds :
    (/\ HoldsOne(t, "browser_support")
     /\ TriggerOf(t).browser \in DetailBrowserSet
     /\ Evaluated(t))
    => (Fired(t) <=> ListsTransitionTo(EntryOf(store[t].feature_id), TriggerOf(t).browser,
                                       TokenOf(TriggerOf(t).targetStatus)))

\* C6: a tracking holding a browser-version trigger is notified when the change record
\* lists that browser reaching the target status.
C6_BrowserVersionEvaluated ==
  \A t \in TrackingIds :
    (/\ HoldsOne(t, "browser_version")
     /\ Evaluated(t)
     /\ ListsTransitionTo(EntryOf(store[t].feature_id), TriggerOf(t).browser,
                          TokenOf(TriggerOf(t).targetStatus)))
    => Fired(t)

\* C7: a baseline-status trigger fires only if the change record carries a baseline
\* transition, and then exactly when the new tier satisfies the target: low or high for
\* target low, high for target high; never when the new tier is false.
C7_BaselineStatus ==
  \A t \in TrackingIds :
    (HoldsOne(t, "baseline_status") /\ Evaluated(t))
    => LET changes == EntryOf(store[t].feature_id)
           target == TriggerOf(t).targetStatus
       IN Fired(t) <=>
            /\ changes.hasBaseline
            /\ changes.baseline.new # "false"
            /\ (target = "low" => changes.baseline.new \in {"low", "high"})
            /\ (target = "high" => changes.baseline.new = "high")

C7_Witness ==
  \E t \in TrackingIds :
    /\ HoldsOne(t, "baseline_status")
    /\ TriggerOf(t).targetStatus = "low"
    /\ Fired(t)
    /\ EntryOf(store[t].feature_id).baseline.old = "false"
    /\ EntryOf(store[t].feature_id).baseline.new = "high"

\* the condition of a trigger, as a predicate of the value it watches
Satisfies(trigger, value) ==
  IF trigger.type = "usage_threshold" THEN value >= trigger.threshold
  ELSE IF trigger.type = "browser_support" THEN value = TokenOf(trigger.targetStatus)
  ELSE IF trigger.targetStatus = "low" THEN value \in {"low", "high"}
  ELSE value = "high"

\* C8: every trigger kind obeys crossing semantics: a usage-threshold (total),
\* browser-support or baseline-status trigger fires only when its condition is not
\* satisfied by the old value recorded in the change record and is satisfied by the
\* new value.
C8_CrossingSemantics ==
  \A t \in TrackingIds :
    (store[t].exists /\ Len(store[t].triggers) = 1 /\ Fired(t))
    => LET trigger == TriggerOf(t)
           changes == EntryOf(store[t].feature_id)
       IN /\ (trigger.type = "usage_threshold" /\ trigger.usageType \in {"total", "combined"})
               => /\ changes.hasUsage
                  /\ ~Satisfies(trigger, changes.usage.old)
                  /\ Satisfies(trigger, changes.usage.new)
          /\ trigger.type = "browser_support"
               => \E k \in 1..Len(changes.support) :
                    /\ changes.support[k].browser = trigger.browser
                    /\ ~Satisfies(trigger, changes.support[k].old)
                    /\ Satisfies(trigger, changes.support[k].new)
          /\ trigger.type = "baseline_status"
               => /\ changes.hasBaseline
                  /\ ~Satisfies(trigger, changes.baseline.old)
                  /\ Satisfies(trigger, changes.baseline.new)

\* C9: a rejected message is caught for that tracking only: the step that logs the
\* rejection leaves the store as it is (status active, no notified timestamp) and
\* moves on to the next tracking of the feature, else to the next change of the
\* report, and only after the last one to the end of the run.
C9_RejectionIsLocal ==
  [][\A t \in TrackingIds :
       (outcome'[t] = "rejected" /\ outcome[t] # "rejected") =>
         /\ store' = store
         /\ sent' = sent
         /\ IF ti < Len(trackingsQ)
            THEN pc' = "trackings" /\ ti' = ti + 1 /\ trackingsQ' = trackingsQ /\ ci' = ci
            ELSE IF ci < Len(changeReport.changes)
            THEN pc' = "changes" /\ ci' = ci + 1
            ELSE pc' = "idle" /\ stage' = "notified"]_vars

C9_Witness ==
  /\ outcome[TrackingOrder[1]] = "rejected"
  /\ store[TrackingOrder[1]].exists
  /\ store[TrackingOrder[1]].status = "active"
  /\ ~store[TrackingOrder[1]].notified_at
  /\ outcome[TrackingOrder[2]] = "sent"
  /\ store[TrackingOrder[2]].status = "notified"
  /\ RunComplete

\* C10: a tracking whose trigger fired and whose delivery was rejected in one run is
\* sent its notification by the next detection plus notification run, over the next
\* snapshot, in which the service rejects nothing.
C10_RejectedIsRetried ==
  (RunComplete /\ \A u \in TrackingIds : outcome[u] # "rejected")
  => \A t \in pendingRetry : ~(store[t].exists /\ store[t].status = "active")

\* C11: under any interleaving of the steps of notification runs with the user's
\* actions on the store, the status of a tracking only moves forward along
\* active -> notified -> completed: a step of a run changes a status only from active
\* to notified, a user action only from notified to completed, and no step changes the
\* status of a completed tracking.
C11_StatusMovesForward ==
  [][\A t \in TrackingIds :
       (store[t].exists /\ store'[t].exists /\ store'[t].status # store[t].status) =>
         \/ /\ store[t].status = "active"
            /\ store'[t].status = "notified"
            /\ pc = "trackings"
            /\ trackingsQ[ti].id = t
         \/ /\ store[t].status = "notified"
            /\ store'[t].status = "completed"
            /\ UNCHANGED <<pc, ci, ti, trackingsQ, sent, outcome>>]_vars

C11_Witness ==
  /\ pc = "trackings"
  /\ ti = 2
  /\ outcome[trackingsQ[1].id] = "sent"
  /\ store[trackingsQ[1].id].exists
  /\ store[trackingsQ[1].id].status = "completed"
  /\ store[trackingsQ[2].id].exists
  /\ store[trackingsQ[2].id].status = "active"

(***************************************************************************)
(* Specification of one change detection over every pair of snapshots in   *)
(* which a feature may be missing from either side                         *)
(***************************************************************************)
DetectSupports == [IndexBrowserSet -> {"y", "n"}] \cup EvalSupports
DetectRecords == FeatureRecords(EvalUsageValues, DetectSupports, BaselineTiers)
DetectOther == [EvalOther EXCEPT !.usage = MaxUsage, !.full = MaxUsage, !.baseline = "low"]
DetectSnapshots ==
  {[f \in Features |-> IF f = "abc" THEN r ELSE o] :
     r \in DetectRecords \cup {AbsentFeature}, o \in {EvalOther, DetectOther, AbsentFeature}}

InitDetect ==
  /\ \E snapshot \in DetectSnapshots :
       previousIndex = [exists |-> TRUE, features |-> snapshot]
  /\ \E snapshot \in DetectSnapshots :
       currentIndex = [exists |-> TRUE, features |-> snapshot]
  /\ changeReport = NoReport
  /\ store = [t \in TrackingIds |-> NoRow]
  /\ stage = "built"
  /\ pc = "idle"
  /\ ci = 0
  /\ trackingsQ = <<>>
  /\ ti = 0
  /\ sent = [t \in TrackingIds |-> 0]
  /\ outcome = NoOutcome
  /\ pendingRetry = {}
  /\ PipelineIdle

NextDetect == DetectChanges

SpecDetect == InitDetect /\ [][NextDetect]_vars

\* the report of the detection over the two snapshots has been written
Detected == stage = "detected" /\ changeReport.exists

InBoth(f) == currentIndex.features[f].present /\ previousIndex.features[f].present

\* C12: a feature id present in the current snapshot and absent from the previous one
\* has no entry in the change report, whatever its usage, support and baseline are.
C12_NewFeatureIsSilent ==
  Detected =>
    \A f \in Features :
      (currentIndex.features[f].present /\ ~previousIndex.features[f].present)
      => ~HasEntry(f)

C12_Witness ==
  /\ Detected
  /\ changeReport.totalChanges > 0
  /\ \E f \in Features :
       /\ currentIndex.features[f].present
       /\ ~previousIndex.features[f].present
       /\ currentIndex.features[f].usage > 1
       /\ currentIndex.features[f].baseline = "high"

EntriesOf(f) == {i \in 1..Len(changeReport.changes) : changeReport.changes[i].featureId = f}

ChangedBrowsers(f) ==
  {b \in IndexBrowserSet :
     currentIndex.features[f].support[b] # previousIndex.features[f].support[b]}

\* C13: for a feature present in both snapshots the entry of the change report carries
\* a usage change exactly when the totals differ by more than one point (with old, new
\* and delta = current - previous), one support transition for each browser whose token
\* differs and for no other, and a baseline transition exactly when the tiers differ;
\* the feature has an entry exactly when one of these is present, never two entries,
\* and totalChanges is the number of entries.
C13_ChangeEntry ==
  Detected =>
    /\ changeReport.totalChanges = Len(changeReport.changes)
    /\ \A f \in Features :
         /\ Cardinality(EntriesOf(f)) <= 1
         /\ InBoth(f) =>
              LET curr == currentIndex.features[f]
                  prev == previousIndex.features[f]
                  usageDiffers == curr.usage - prev.usage > 1 \/ prev.usage - curr.usage > 1
                  tierDiffers == curr.baseline # prev.baseline
              IN /\ HasEntry(f) <=> (usageDiffers \/ ChangedBrowsers(f) # {} \/ tierDiffers)
                 /\ HasEntry(f) =>
                      LET ch == EntryOf(f)
                      IN /\ ch.hasUsage <=> usageDiffers
                         /\ ch.hasUsage =>
                              /\ ch.usage.old = prev.usage
                              /\ ch.usage.new = curr.usage
                              /\ ch.usage.delta = curr.usage - prev.usage
                         /\ Len(ch.support) = Cardinality(ChangedBrowsers(f))
                         /\ \A b \in ChangedBrowsers(f) :
                              \E k \in 1..Len(ch.support) :
                                /\ ch.support[k].browser = b
                                /\ ch.support[k].old = prev.support[b]
                                /\ ch.support[k].new = curr.support[b]
                         /\ ch.hasBaseline <=> tierDiffers
                         /\ ch.hasBaseline =>
                              /\ ch.baseline.old = prev.baseline
                              /\ ch.baseline.new = curr.baseline

C13_Witness ==
  /\ Detected
  /\ changeReport.totalChanges = 2
  /\ \E f \in Features :
       /\ InBoth(f)
       /\ HasEntry(f)
       /\ ~EntryOf(f).hasUsage
       /\ currentIndex.features[f].usage = previousIndex.features[f].usage + 1
       /\ Len(EntryOf(f).support) = 2
       /\ EntryOf(f).hasBaseline
       /\ EntryOf(f).baseline.old = "false"

(***************************************************************************)
(* Strings: a string is the sequence of its characters                     *)
(***************************************************************************)
LowerOf ==
  [A |-> "a", B |-> "b", C |-> "c", D |-> "d", E |-> "e", F |-> "f", G |-> "g",
   H |-> "h", I |-> "i", J |-> "j", K |-> "k", L |-> "l", M |-> "m", N |-> "n",
   O |-> "o", P |-> "p", Q |-> "q", R |-> "r", S |-> "s", T |-> "t", U |-> "u",
   V |-> "v", W |-> "w", X |-> "x", Y |-> "y", Z |-> "z"]

LowerLetters == {LowerOf[c] : c \in DOMAIN LowerOf}
Digits == {"0", "1", "2", "3", "4", "5", "6", "7", "8", "9"}
Whitespace == {" "}

toLowerCase(s) ==
  [i \in 1..Len(s) |-> IF s[i] \in DOMAIN LowerOf THEN LowerOf[s[i]] ELSE s[i]]

startsWith(s, prefix) ==
  Len(s) >= Len(prefix) /\ SubSeq(s, 1, Len(prefix)) = prefix

\* s.includes(part)
includes(s, part) ==
  \E i \in 0..(Len(s) - Len(part)) : SubSeq(s, i + 1, i + Len(part)) = part

\* s.replace(/[^a-z0-9]/g, "")
keepAlphanumeric(s) == SelectSeq(s, LAMBDA c : c \in LowerLetters \cup Digits)

\* the backtick character
Backtick == "backtick"

\* name.replace of every backtick by ""
dropBackticks(s) == SelectSeq(s, LAMBDA c : c # Backtick)

concat(a, b) == a \o b

SourcePrefixes == {<<"c", "s", "s", "-">>, <<"w", "f", "-">>, <<"m", "d", "n", "-">>}

\* s.replace(/^(css-|wf-|mdn-)/, "")
dropSourcePrefix(s) ==
  IF \E prefix \in SourcePrefixes : startsWith(s, prefix)
  THEN LET prefix == CHOOSE prefix \in SourcePrefixes : startsWith(s, prefix)
       IN SubSeq(s, Len(prefix) + 1, Len(s))
  ELSE s

\* the number of whitespace characters of s from position i on
RECURSIVE whitespaceRun(_, _)
whitespaceRun(s, i) ==
  IF i > Len(s) THEN 0
  ELSE IF s[i] \in Whitespace THEN 1 + whitespaceRun(s, i + 1)
  ELSE 0

\* s.replace(/^css\s+/i, "")
dropCssWord(s) ==
  IF startsWith(toLowerCase(s), <<"c", "s", "s">>) /\ whitespaceRun(s, 4) > 0
  THEN SubSeq(s, 4 + whitespaceRun(s, 4), Len(s))
  ELSE s

(***************************************************************************)
(* Feature deduplication                                                   *)
(***************************************************************************)
normalizeFeatureId(id) == keepAlphanumeric(dropSourcePrefix(toLowerCase(id)))

normalizeFeatureName(name) ==
  keepAlphanumeric(dropBackticks(dropCssWord(toLowerCase(name))))

Min(a, b) == IF a < b THEN a ELSE b
Max(a, b) == IF a > b THEN a ELSE b

\* lenRatio > 0.7, as 10 * min > 7 * max; the two lengths are not both zero here
similarLength(name1, name2) ==
  10 * Min(Len(name1), Len(name2)) > 7 * Max(Len(name1), Len(name2))

\* variant: the containment test looks one way only
namesAlike_OneWay(normName1, normName2) ==
  IF normName1 = normName2 THEN TRUE
  ELSE IF includes(normName1, normName2) THEN similarLength(normName1, normName2)
  ELSE FALSE

\* the tests of areLikelyDuplicates on the two normalized names
namesAlike(normName1, normName2) ==
  IF normName1 = normName2 THEN TRUE
  ELSE IF includes(normName1, normName2) \/ includes(normName2, normName1)
  THEN similarLength(normName1, normName2)
  ELSE FALSE

\* variant: the containment test looks one way only
areLikelyDuplicates_OneWay(feature1, feature2) ==
  IF normalizeFeatureId(feature1.id) = normalizeFeatureId(feature2.id) THEN TRUE
  ELSE namesAlike_OneWay(normalizeFeatureName(feature1.name),
                         normalizeFeatureName(feature2.name))

areLikelyDuplicates(feature1, feature2) ==
  IF normalizeFeatureId(feature1.id) = normalizeFeatureId(feature2.id) THEN TRUE
  ELSE namesAlike(normalizeFeatureName(feature1.name), normalizeFeatureName(feature2.name))

(***************************************************************************)
(* Calls of exported functions                                             *)
(***************************************************************************)
\* the notification scripts are not running
NotifyIdle ==
  /\ previousIndex = NoIndex
  /\ currentIndex = NoIndex
  /\ changeReport = NoReport
  /\ store = [t \in TrackingIds |-> NoRow]
  /\ stage = "built"
  /\ pc = "idle"
  /\ ci = 0
  /\ trackingsQ = <<>>
  /\ ti = 0
  /\ sent = [t \in TrackingIds |-> 0]
  /\ outcome = NoOutcome
  /\ pendingRetry = {}

CallPending(fn) == call.fn = fn /\ ~ret.returned

Returned(fn) == call.fn = fn /\ ret.returned

Call_areLikelyDuplicates ==
  /\ CallPending("areLikelyDuplicates")
  /\ ret' = [returned |-> TRUE, value |-> areLikelyDuplicates(call.args[1], call.args[2])]
  /\ UNCHANGED <<sources, features, stats, step, call, files>>
  /\ UNCHANGED notifyVars

(***************************************************************************)
(* Specification of one call of areLikelyDuplicates on every pair of       *)
(* {id, name} records over short ids and names                             *)
(***************************************************************************)
MaxNameLen == 4

\* all strings over the alphabet of at most the given length
StringsUpTo(alphabet, n) == UNION {[1..k -> alphabet] : k \in 0..n}

DedupNames ==
  StringsUpTo({"a", "b"}, MaxNameLen)
    \cup {<<"C", "S", "S", " ", "a", "b">>, <<Backtick, "a", "b", Backtick>>, <<"c", "s", "s", "a">>}

DedupIds == {<<"a">>, <<"w", "f", "-", "a">>, <<"A", ".", "b">>, <<"c", "s", "s", "-", "b">>}

DedupRecords == [id : DedupIds, name : DedupNames]

InitDedup ==
  /\ NotifyIdle
  /\ sources = NoSources
  /\ features = <<>>
  /\ stats = ZeroStats
  /\ step = [stage |-> "idle", i |-> 0]
  /\ \E x \in DedupRecords, y \in DedupRecords :
       call = [fn |-> "areLikelyDuplicates", args |-> <<x, y>>]
  /\ ret = NoReturn
  /\ files = NoFiles

NextDedup == Call_areLikelyDuplicates

SpecDedup == InitDedup /\ [][NextDedup]_vars

\* C18: deduplication is symmetric: for every pair of {id, name} records x and y,
\* areLikelyDuplicates(x, y) returns what areLikelyDuplicates(y, x) returns.
C18_DedupSymmetric ==
  Returned("areLikelyDuplicates") =>
    ret.value = areLikelyDuplicates(call.args[2], call.args[1])

C18_Witness ==
  /\ Returned("areLikelyDuplicates")
  /\ ret.value
  /\ normalizeFeatureId(call.args[1].id) # normalizeFeatureId(call.args[2].id)
  /\ Len(normalizeFeatureName(call.args[1].name)) < Len(normalizeFeatureName(call.args[2].name))

(***************************************************************************)
(* Versions (shared/version-utils): a version is a string, "15.6", "TP"    *)
(***************************************************************************)
Str_TP == <<"T", "P">>
Str_all == <<"a", "l", "l">>
Str_0 == <<"0">>

DigitChars == <<"0", "1", "2", "3", "4", "5", "6", "7", "8", "9">>
digitValue(c) == (CHOOSE k \in 1..10 : DigitChars[k] = c) - 1

\* s.split(separator) for a one-character separator out of seps
RECURSIVE splitFrom(_, _, _, _)
splitFrom(s, seps, i, current) ==
  IF i > Len(s) THEN <<current>>
  ELSE IF s[i] \in seps THEN <<current>> \o splitFrom(s, seps, i + 1, <<>>)
  ELSE splitFrom(s, seps, i + 1, Append(current, s[i]))

split(s, seps) == splitFrom(s, seps, 1, <<>>)

\* the number of digits of s from position i on
RECURSIVE digitRun(_, _)
digitRun(s, i) ==
  IF i > Len(s) THEN 0
  ELSE IF s[i] \in Digits THEN 1 + digitRun(s, i + 1)
  ELSE 0

\* the number written by the digits s[i], ..., s[j]
RECURSIVE digitsValue(_, _, _)
digitsValue(s, i, j) ==
  IF j < i THEN 0
  ELSE 10 * digitsValue(s, i, j - 1) + digitValue(s[j])

NaN == -1

\* the number written by the n digits of s from position start on, NaN for no digit
numberAt(s, start, n) == IF n = 0 THEN NaN ELSE digitsValue(s, start, start + n - 1)

intAt(s, start) == numberAt(s, start, digitRun(s, start))

\* parseInt(s, 10) of a string without a sign: NaN without a leading digit
parseInt(s) == intAt(s, 1 + whitespaceRun(s, 1))

\* isNaN(num) ? 0 : num
zeroIfNaN(num) == IF num = NaN THEN 0 ELSE num

numbersOf(parts) == [i \in 1..Len(parts) |-> zeroIfNaN(parseInt(parts[i]))]

\* the parts of compareVersions: split on - and ., NaN becomes 0
versionParts(v) == numbersOf(split(v, {"-", "."}))

partAt(parts, i) == IF i <= Len(parts) THEN parts[i] ELSE 0

RECURSIVE comparePartsFrom(_, _, _)
comparePartsFrom(parts1, parts2, i) ==
  IF i > Max(Len(parts1), Len(parts2)) THEN 0
  ELSE IF partAt(parts1, i) < partAt(parts2, i) THEN -1
  ELSE IF partAt(parts1, i) > partAt(parts2, i) THEN 1
  ELSE comparePartsFrom(parts1, parts2, i + 1)

compareVersions(v1, v2) ==
  IF v1 = v2 THEN 0
  ELSE IF v1 = Str_TP THEN 1
  ELSE IF v2 = Str_TP THEN -1
  ELSE IF v1 = Str_all THEN -1
  ELSE IF v2 = Str_all THEN 1
  ELSE comparePartsFrom(versionParts(v1), versionParts(v2), 1)

\* undefined where a string is expected, and where an object is expected
UndefinedString == <<Undefined>>
UndefinedObject == [undefined |-> TRUE]

\* a string is truthy: not undefined and not the empty string
Truthy(x) == x # UndefinedString /\ x # <<>>

(***************************************************************************)
(* Browsers                                                                *)
(***************************************************************************)
TARGET_BROWSERS ==
  <<"chrome", "firefox", "safari", "edge", "opera", "ie", "ios_saf", "and_chr", "samsung",
    "and_ff">>

TargetBrowserSet == {TARGET_BROWSERS[i] : i \in 1..Len(TARGET_BROWSERS)}

\* obj[key] of a JavaScript object: undefined, in the form given, for a key it does not have
get(obj, key, undefined) == IF key \in DOMAIN obj THEN obj[key] ELSE undefined

has(obj, key) == key \in DOMAIN obj

(***************************************************************************)
(* Browser support extraction (shared/support-utils)                       *)
(***************************************************************************)
SupportDetail(current, firstFull, firstPartial, versions) ==
  [current |-> current, firstFull |-> firstFull, firstPartial |-> firstPartial,
   versions |-> versions]

\* the number of recent versions a detail keeps
RecentVersions == 10

\* versions.slice(-10)
recent(versions) ==
  IF Len(versions) <= RecentVersions THEN versions
  ELSE SubSeq(versions, Len(versions) - RecentVersions + 1, Len(versions))

\* support.replace(/[#xdp]/g, "")
dropModifiers(support) == SelectSeq(support, LAMBDA c : c \notin {"#", "x", "d", "p"})

\* s.trim()
RECURSIVE trimEnd(_)
trimEnd(s) ==
  IF Len(s) > 0 /\ s[Len(s)] \in Whitespace THEN trimEnd(SubSeq(s, 1, Len(s) - 1)) ELSE s

trim(s) == trimEnd(SubSeq(s, 1 + whitespaceRun(s, 1), Len(s)))

statusOfBase(base) ==
  IF base = <<"y">> THEN "y"
  ELSE IF base = <<"a">> THEN "a"
  ELSE IF base = <<"n">> THEN "n"
  ELSE IF base = <<"p">> THEN "p"
  ELSE IF base = <<"u">> THEN "u"
  ELSE "u"

parseCanisueSupport(support) == statusOfBase(trim(dropModifiers(support)))

extractSupportFlags(support) ==
  (IF includes(support, <<"x">>) THEN <<"prefix">> ELSE <<>>)
    \o (IF includes(support, <<"d">>) THEN <<"disabled">> ELSE <<>>)
    \o (IF includes(support, <<"p">>) THEN <<"polyfill">> ELSE <<>>)
    \o (IF includes(support, <<"#">>) THEN <<"footnote">> ELSE <<>>)

\* entries.sort((a, b) => compareVersions(a[0], b[0])): a stable sort; insert places an
\* entry after the entries that do not compare greater
RECURSIVE insertSorted(_, _)
insertSorted(sorted, entry) ==
  IF sorted = <<>> THEN <<entry>>
  ELSE IF compareVersions(sorted[Len(sorted)][1], entry[1]) <= 0 THEN Append(sorted, entry)
  ELSE Append(insertSorted(SubSeq(sorted, 1, Len(sorted) - 1), entry), sorted[Len(sorted)])

RECURSIVE sortByVersion(_)
sortByVersion(entries) ==
  IF entries = <<>> THEN <<>>
  ELSE insertSorted(sortByVersion(SubSeq(entries, 1, Len(entries) - 1)), entries[Len(entries)])

\* one pass of the loop of extractCaniuseBrowserSupport: the entry version, with its
\* status and flags, added to what the passes before it have found
caniuseFold(acc, version, status, flags) ==
  [versions |-> Append(acc.versions,
                       [version |-> version, status |-> status, flags |-> flags]),
   firstFull |-> IF status = "y" /\ ~Truthy(acc.firstFull) THEN version ELSE acc.firstFull,
   firstPartial |-> IF status = "a" /\ ~Truthy(acc.firstPartial)
                    THEN version ELSE acc.firstPartial,
   current |-> status]

\* the loop of extractCaniuseBrowserSupport over the sorted entries, from entry i on; flags
\* without elements stand for undefined flags
RECURSIVE caniuseScan(_, _, _)
caniuseScan(sortedVersions, i, acc) ==
  IF i > Len(sortedVersions) THEN acc
  ELSE caniuseScan(sortedVersions, i + 1,
                   caniuseFold(acc, sortedVersions[i][1],
                               parseCanisueSupport(sortedVersions[i][2]),
                               extractSupportFlags(sortedVersions[i][2])))

NothingFound ==
  [versions |-> <<>>, firstFull |-> UndefinedString, firstPartial |-> UndefinedString,
   current |-> "n"]

\* the detail returned for what the loop has found
detailOf(scan) ==
  SupportDetail(scan.current, scan.firstFull, scan.firstPartial, recent(scan.versions))

\* featureStats is the feature's stats object: browser -> sequence of <<version, support>>
\* in the order of Object.entries
extractCaniuseBrowserSupport(featureStats, browser) ==
  IF ~has(featureStats, browser)
  THEN SupportDetail("u", UndefinedString, UndefinedString, <<>>)
  ELSE detailOf(caniuseScan(sortByVersion(featureStats[browser]), 1, NothingFound))

webFeaturesDetail(version) ==
  IF ~Truthy(version) THEN UndefinedObject
  ELSE SupportDetail("y", version, UndefinedString,
                     <<[version |-> version, status |-> "y", flags |-> <<>>]>>)

\* null when the record has no version for the browser
extractWebFeaturesBrowserSupport(wfSupport, browser) ==
  webFeaturesDetail(get(wfSupport, browser, UndefinedString))

\* the loop of extractMdnBrowserSupport over the statements, from statement i on; a
\* statement is [version_added, flags, partial_implementation], version_added being
\* true, false (also for null) or a version, flags telling that it has flags
VersionAddedTrue == <<"true">>
VersionAddedFalse == <<"false">>

mdnStatus(statement) ==
  IF statement.flags THEN "d"
  ELSE IF statement.partial_implementation THEN "a"
  ELSE "y"

\* one pass of the loop of extractMdnBrowserSupport for a statement with a version
mdnFold(acc, version, status, hasFlags) ==
  [versions |-> Append(acc.versions,
                       [version |-> version, status |-> status,
                        flags |-> IF hasFlags THEN <<"flags">> ELSE <<>>]),
   firstFull |-> IF status = "y" /\ ~Truthy(acc.firstFull) THEN version ELSE acc.firstFull,
   firstPartial |-> IF status = "a" /\ ~Truthy(acc.firstPartial)
                    THEN version ELSE acc.firstPartial,
   current |-> IF status = "y" /\ ~Truthy(acc.firstFull) THEN "y"
               ELSE IF status = "a" /\ ~Truthy(acc.firstPartial) /\ acc.current = "n"
               THEN "a"
               ELSE acc.current]

\* the loop of extractMdnBrowserSupport over the statements, from statement i on; a
\* statement is [version_added, flags, partial_implementation], version_added being
\* true, false (also for null) or a version, flags telling that it has flags
RECURSIVE mdnScan(_, _, _)
mdnScan(statements, i, acc) ==
  IF i > Len(statements) THEN acc
  ELSE IF statements[i].version_added = VersionAddedTrue
  THEN mdnScan(statements, i + 1, [acc EXCEPT !.current = "y"])
  ELSE IF statements[i].version_added = VersionAddedFalse
  THEN mdnScan(statements, i + 1, acc)
  ELSE mdnScan(statements, i + 1,
               mdnFold(acc, statements[i].version_added, mdnStatus(statements[i]),
                       statements[i].flags))

mdnDetailOf(scan) == IF Len(scan.versions) = 0 THEN UndefinedObject ELSE detailOf(scan)

\* mdnSupport is the sequence of statements (a single statement is a sequence of one)
extractMdnBrowserSupport(mdnSupport, browser) ==
  mdnDetailOf(mdnScan(mdnSupport, 1, NothingFound))

inferenceMap ==
  [ios_saf |-> "safari", and_chr |-> "chrome", samsung |-> "chrome", and_ff |-> "firefox",
   opera |-> "chrome", ie |-> "edge"]

UnsupportedDetail == SupportDetail("n", UndefinedString, UndefinedString, <<>>)

\* variant: without a related browser that has data the support is unknown
inferBrowserSupport_Unknown(browser, browsersWithData, support) ==
  LET relatedBrowser == get(inferenceMap, browser, Undefined)
  IN IF relatedBrowser # Undefined /\ relatedBrowser \in browsersWithData
     THEN support[relatedBrowser]
     ELSE SupportDetail("u", UndefinedString, UndefinedString, <<>>)

inferBrowserSupport(browser, browsersWithData, support) ==
  LET relatedBrowser == get(inferenceMap, browser, Undefined)
  IN IF relatedBrowser # Undefined /\ relatedBrowser \in browsersWithData
     THEN support[relatedBrowser]
     ELSE UnsupportedDetail

\* the second loop over TARGET_BROWSERS of createFeatureFromWebFeatures and of
\* createFeatureFromMdn
inferMissing(native, browsersWithData) ==
  [b \in TargetBrowserSet |->
     IF b \in browsersWithData THEN native[b]
     ELSE inferBrowserSupport(b, browsersWithData, [x \in browsersWithData |-> native[x]])]

\* the two loops over TARGET_BROWSERS of createFeatureFromWebFeatures and of
\* createFeatureFromMdn: native is the extracted detail per browser, undefined for none
resolveSupport(native) ==
  inferMissing(native, {b \in TargetBrowserSet : native[b] # UndefinedObject})

(***************************************************************************)
(* Usage calculation (shared/usage-utils).  An amount of usage is a whole   *)
(* number of 1/Resolution hundredths of a percent; a rounded amount is a    *)
(* whole number of hundredths of a percent.                                 *)
(***************************************************************************)
Resolution == 100

\* Math.round(x * 100) / 100 of an amount x >= 0, in hundredths
roundToHundredths(x) == (2 * x + Resolution) \div (2 * Resolution)

RECURSIVE Pow10(_)
Pow10(k) == IF k = 0 THEN 1 ELSE 10 * Pow10(k - 1)

NotANumber == [nan |-> TRUE, whole |-> 0, fraction |-> 0, decimals |-> 0]

\* the number of digits after a decimal point at position point, 0 without the point
fractionDigits(s, point) ==
  IF point <= Len(s) /\ s[point] = "." THEN digitRun(s, point + 1) ELSE 0

\* the number with n digits from position start on, a point and m digits
floatOf(s, start, n, m) ==
  IF n + m = 0 THEN NotANumber
  ELSE [nan |-> FALSE,
        whole |-> digitsValue(s, start, start + n - 1),
        fraction |-> digitsValue(s, start + n + 1, start + n + m),
        decimals |-> m]

floatWith(s, start, n) == floatOf(s, start, n, fractionDigits(s, start + n))

floatAt(s, start) == floatWith(s, start, digitRun(s, start))

\* parseFloat(s) of a string without a sign or an exponent: the digits before and after
\* the decimal point, read up to the first character that does not belong to the number
parseFloat(s) == floatAt(s, 1 + whitespaceRun(s, 1))

isNaN(x) == x.nan

\* the number x as a whole number of 10^-d
scaled(x, d) == (x.whole * Pow10(x.decimals) + x.fraction) * Pow10(d - x.decimals)

\* usage * Math.max(0, Math.min(1, supportedSize / rangeSize)), nothing for an empty range
clampedShare(usage, rangeSize, supportedSize) ==
  IF rangeSize > 0
  THEN IF supportedSize <= 0 THEN 0
       ELSE IF supportedSize >= rangeSize THEN usage
       ELSE (usage * supportedSize) \div rangeSize
  ELSE 0

\* the three numbers as whole numbers of 10^-d
shareAt(usage, startNum, endNum, supportNum, d) ==
  clampedShare(usage, scaled(endNum, d) - scaled(startNum, d),
               scaled(endNum, d) - scaled(supportNum, d))

shareOf(usage, startNum, endNum, supportNum) ==
  IF ~isNaN(startNum) /\ ~isNaN(endNum) /\ ~isNaN(supportNum)
  THEN shareAt(usage, startNum, endNum, supportNum,
               Max(startNum.decimals, Max(endNum.decimals, supportNum.decimals)))
  ELSE 0

\* the proportional usage of a range that support starts in, nothing when a number is
\* missing
proportionalUsage(usage, rangeStart, rangeEnd, firstVersion) ==
  shareOf(usage, parseFloat(rangeStart), parseFloat(rangeEnd), parseFloat(firstVersion))

NoUsage == [full |-> 0, partial |-> 0]

FullUsage(usage) == [full |-> usage, partial |-> 0]
PartialUsage(usage) == [full |-> 0, partial |-> usage]

\* the branch of the loop for a version range
rangeUsage(browserSupport, rangeStart, rangeEnd, usage) ==
  IF Truthy(browserSupport.firstFull)
  THEN IF compareVersions(browserSupport.firstFull, rangeStart) <= 0
       THEN FullUsage(usage)
       ELSE IF compareVersions(browserSupport.firstFull, rangeEnd) > 0
       THEN NoUsage
       ELSE FullUsage(proportionalUsage(usage, rangeStart, rangeEnd,
                                        browserSupport.firstFull))
  ELSE IF Truthy(browserSupport.firstPartial)
  THEN IF compareVersions(browserSupport.firstPartial, rangeStart) <= 0
       THEN PartialUsage(usage)
       ELSE IF compareVersions(browserSupport.firstPartial, rangeEnd) > 0
       THEN NoUsage
       ELSE PartialUsage(proportionalUsage(usage, rangeStart, rangeEnd,
                                           browserSupport.firstPartial))
  ELSE NoUsage

\* const [rangeStart, rangeEnd] = versionStr.split("-")
rangeUsageOf(browserSupport, bounds, usage) ==
  rangeUsage(browserSupport, bounds[1], bounds[2], usage)

\* one pass of the loop over a browser's usage entries: what the entry adds to
\* browserFullUsage and to browserPartialUsage
entryUsage(browserSupport, versionStr, usage) ==
  IF versionStr = Str_TP \/ versionStr = Str_all THEN NoUsage
  ELSE IF versionStr = Str_0
  THEN IF browserSupport.current = "y" THEN FullUsage(usage)
       ELSE IF browserSupport.current = "a" THEN PartialUsage(usage)
       ELSE NoUsage
  ELSE IF includes(versionStr, <<"-">>)
  THEN rangeUsageOf(browserSupport, split(versionStr, {"-"}), usage)
  ELSE IF /\ Truthy(browserSupport.firstFull)
          /\ compareVersions(versionStr, browserSupport.firstFull) >= 0
  THEN FullUsage(usage)
  ELSE IF /\ Truthy(browserSupport.firstPartial)
          /\ compareVersions(versionStr, browserSupport.firstPartial) >= 0
  THEN PartialUsage(usage)
  ELSE NoUsage

addUsage(a, b) == [full |-> a.full + b.full, partial |-> a.partial + b.partial]

\* the loop over Object.entries(browserUsage), from entry i on
RECURSIVE browserUsageFrom(_, _, _)
browserUsageFrom(browserSupport, browserUsage, i) ==
  IF i > Len(browserUsage) THEN NoUsage
  ELSE addUsage(entryUsage(browserSupport, browserUsage[i][1], browserUsage[i][2]),
                browserUsageFrom(browserSupport, browserUsage, i + 1))

\* what one browser adds to fullUsage and partialUsage
browserUsageOf(support, actualUsageData, browser) ==
  IF ~has(support, browser) \/ ~has(actualUsageData, browser) THEN NoUsage
  ELSE IF /\ support[browser].current = "n"
          /\ ~Truthy(support[browser].firstFull)
          /\ ~Truthy(support[browser].firstPartial)
  THEN NoUsage
  ELSE browserUsageFrom(support[browser], actualUsageData[browser], 1)

BROWSER_CATEGORIES ==
  [chrome |-> "desktop", firefox |-> "desktop", safari |-> "desktop", edge |-> "desktop",
   opera |-> "desktop", ie |-> "desktop", ios_saf |-> "mobile", and_chr |-> "mobile",
   samsung |-> "mobile", and_ff |-> "mobile"]

\* fullUsage and partialUsage: the sum over TARGET_BROWSERS, from browser i on, of what
\* each browser adds
RECURSIVE sumUsageFrom(_, _)
sumUsageFrom(perBrowser, i) ==
  IF i > Len(TARGET_BROWSERS) THEN NoUsage
  ELSE addUsage(perBrowser[TARGET_BROWSERS[i]], sumUsageFrom(perBrowser, i + 1))

\* byBrowser[category]: the browsers of the category with some usage, each with its
\* rounded usage
byBrowserIn(perBrowser, category) ==
  [b \in {b \in TargetBrowserSet :
            BROWSER_CATEGORIES[b] = category /\ perBrowser[b].full + perBrowser[b].partial > 0}
     |-> roundToHundredths(perBrowser[b].full + perBrowser[b].partial)]

\* variant: the total counts full support only
globalOf_FullOnly(amounts) ==
  [full |-> roundToHundredths(amounts.full),
   partial |-> roundToHundredths(amounts.partial),
   total |-> roundToHundredths(amounts.full)]

\* the global part of a result: the amounts rounded, and their rounded sum
globalOf(amounts) ==
  [full |-> roundToHundredths(amounts.full),
   partial |-> roundToHundredths(amounts.partial),
   total |-> roundToHundredths(amounts.full + amounts.partial)]

\* pre-calculated amounts are given and one of them is positive
usePreCalculated(preCalculated) ==
  preCalculated # UndefinedObject /\ (preCalculated.full > 0 \/ preCalculated.partial > 0)

\* the two return statements of estimateUsage, perBrowser being what each browser adds
usageResult(perBrowser, preCalculated) ==
  [global |-> IF usePreCalculated(preCalculated) THEN globalOf(preCalculated)
              ELSE globalOf(sumUsageFrom(perBrowser, 1)),
   byBrowser |-> [desktop |-> byBrowserIn(perBrowser, "desktop"),
                  mobile |-> byBrowserIn(perBrowser, "mobile")]]

\* usageData is the file's content, [data |-> browser -> sequence of <<version, usage>>];
\* preCalculated is undefined or [full, partial]
estimateUsage(support, usageData, preCalculated) ==
  usageResult([b \in TargetBrowserSet |-> browserUsageOf(support, usageData.data, b)],
              preCalculated)

\* [feature.usage_perc_y || 0, feature.usage_perc_a || 0]
preCalculatedOf(feature) ==
  [full |-> get(feature, "usage_perc_y", 0), partial |-> get(feature, "usage_perc_a", 0)]

actualUsage(support, usageData, amounts) ==
  [global |-> globalOf(amounts),
   byBrowser |-> IF usageData # UndefinedObject
                 THEN estimateUsage(support, usageData, amounts).byBrowser
                 ELSE [desktop |-> <<>>, mobile |-> <<>>]]

calculateActualUsage(feature, support, usageData) ==
  actualUsage(support, usageData, preCalculatedOf(feature))

(***************************************************************************)
(* Names and categories (shared/format-utils, shared/category-utils)        *)
(***************************************************************************)
\* the upper-case letter of a lower-case letter, any other character itself
toUpperCaseChar(c) ==
  IF \E u \in DOMAIN LowerOf : LowerOf[u] = c
  THEN CHOOSE u \in DOMAIN LowerOf : LowerOf[u] = c
  ELSE c

\* name.replace(/_/g, " ")
underscoresToSpaces(name) == [i \in 1..Len(name) |-> IF name[i] = "_" THEN " " ELSE name[i]]

\* s.replace(/^./, (str) => str.toUpperCase())
capitalize(s) == IF s = <<>> THEN s ELSE <<toUpperCaseChar(s[1])>> \o SubSeq(s, 2, Len(s))

formatSnakeCase(name) ==
  IF includes(name, <<"-">>) /\ ~includes(name, <<"_">>) THEN name
  ELSE capitalize(underscoresToSpaces(name))

cssFunctions ==
  {<<"r", "g", "b">>, <<"h", "s", "l">>, <<"h", "w", "b">>, <<"l", "a", "b">>,
   <<"l", "c", "h">>, <<"o", "k", "l", "c", "h">>, <<"o", "k", "l", "a", "b">>,
   <<"c", "a", "l", "c">>, <<"v", "a", "r">>, <<"m", "i", "n">>, <<"m", "a", "x">>,
   <<"c", "l", "a", "m", "p">>, <<"u", "r", "l">>, <<"a", "t", "t", "r">>,
   <<"c", "o", "u", "n", "t", "e", "r">>, <<"c", "o", "u", "n", "t", "e", "r", "s">>,
   <<"l", "i", "n", "e", "a", "r", "-", "g", "r", "a", "d", "i", "e", "n", "t">>,
   <<"r", "a", "d", "i", "a", "l", "-", "g", "r", "a", "d", "i", "e", "n", "t">>}

last(parts) == parts[Len(parts)]

\* parts[i] of an array
at(parts, i) == IF i <= Len(parts) THEN parts[i] ELSE UndefinedString

inferCssName(parts) ==
  LET subCategory == at(parts, 2)
  IN IF subCategory = <<"p", "r", "o", "p", "e", "r", "t", "i", "e", "s">> /\ Len(parts) >= 3
     THEN IF Len(parts) = 3 THEN parts[3]
          ELSE parts[3] \o <<":", " ">> \o formatSnakeCase(last(parts))
     ELSE IF subCategory = <<"s", "e", "l", "e", "c", "t", "o", "r", "s">>
     THEN IF Len(parts) >= 3 THEN parts[3] ELSE last(parts)
     ELSE IF subCategory = <<"a", "t", "-", "r", "u", "l", "e", "s">> /\ Len(parts) >= 3
     THEN IF Len(parts) = 3 THEN <<"@">> \o parts[3]
          ELSE <<"@">> \o parts[3] \o <<":", " ">> \o formatSnakeCase(last(parts))
     ELSE IF subCategory = <<"t", "y", "p", "e", "s">> /\ Len(parts) >= 3
     THEN IF last(parts) \in cssFunctions THEN last(parts) \o <<"(", ")">>
          ELSE formatSnakeCase(last(parts))
     ELSE formatSnakeCase(last(parts))

inferGenericName(parts) == formatSnakeCase(last(parts))

\* for a path under css or under a category without a rule of its own (http); paths
\* under api, html, javascript and svg are not among the paths considered here
inferNameFromMdnPath(path) ==
  LET parts == split(path, {"."})
      category == parts[1]
  IN IF category = <<"c", "s", "s">> THEN inferCssName(parts)
     ELSE inferGenericName(parts)

inferCategoryFromMdnPath(path) ==
  LET topLevel == toLowerCase(split(path, {"."})[1])
  IN IF topLevel = <<"c", "s", "s">> THEN "CSS"
     ELSE IF topLevel = <<"h", "t", "m", "l">> THEN "HTML5"
     ELSE IF topLevel = <<"a", "p", "i">> \/ topLevel = <<"j", "a", "v", "a", "s", "c", "r", "i", "p", "t">> THEN "JS API"
     ELSE IF topLevel = <<"s", "v", "g">> THEN "SVG"
     ELSE "Other"

mapCaniuseCategory(categories) ==
  IF Len(categories) = 0 THEN "Other"
  ELSE LET firstCategory == toLowerCase(categories[1])
       IN IF includes(firstCategory, <<"c", "s", "s">>) THEN "CSS"
          ELSE IF includes(firstCategory, <<"h", "t", "m", "l">>) THEN "HTML5"
          ELSE IF \/ includes(firstCategory, <<"j", "s">>)
                  \/ includes(firstCategory, <<"j", "a", "v", "a", "s", "c", "r", "i", "p", "t">>)
                  \/ includes(firstCategory, <<"a", "p", "i">>)
          THEN "JS API"
          ELSE IF includes(firstCategory, <<"s", "v", "g">>) THEN "SVG"
          ELSE "Other"

CodeOpen == <<"<", "c", "o", "d", "e", ">">>
CodeClose == <<"<", "/", "c", "o", "d", "e", ">">>

\* the number of characters of s from position i on that are not "<"
RECURSIVE plainRun(_, _)
plainRun(s, i) ==
  IF i > Len(s) THEN 0
  ELSE IF s[i] # "<" THEN 1 + plainRun(s, i + 1)
  ELSE 0

\* the characters of s at the positions i to j, as far as s has them
slice(s, i, j) == SubSeq(s, i, Min(j, Len(s)))

\* text.replace of every <code>, characters other than "<", </code> by the characters
\* between backticks, from position i on
RECURSIVE codeTagsFrom(_, _)
codeTagsFrom(text, i) ==
  IF i > Len(text) THEN <<>>
  ELSE LET inner == i + Len(CodeOpen)
           n == plainRun(text, inner)
           close == inner + n
       IN IF /\ slice(text, i, inner - 1) = CodeOpen
             /\ n > 0
             /\ slice(text, close, close + Len(CodeClose) - 1) = CodeClose
          THEN <<Backtick>> \o SubSeq(text, inner, close - 1) \o <<Backtick>>
                 \o codeTagsFrom(text, close + Len(CodeClose))
          ELSE <<text[i]>> \o codeTagsFrom(text, i + 1)

\* of a string; of undefined the call of replace throws
normalizeCodeTags(text) == IF text = <<>> THEN text ELSE codeTagsFrom(text, 1)

wrapWithBackticks(text) == <<Backtick>> \o text \o <<Backtick>>

WordChars == LowerLetters \cup DOMAIN LowerOf \cup Digits \cup {"_"}

\* /^\w+="[^"]*"$/.test(name)
isAttributeSyntax(name) ==
  \E k \in 2..(Len(name) - 2) :
    /\ name[k] = "="
    /\ name[k + 1] = "\""
    /\ name[Len(name)] = "\""
    /\ \A i \in 1..(k - 1) : name[i] \in WordChars
    /\ \A i \in (k + 2)..(Len(name) - 1) : name[i] # "\""

\* /^[a-z]+(-[a-z]+)+$/.test(name)
isHyphenatedWords(name) ==
  /\ Len(name) > 0
  /\ \A i \in 1..Len(name) : name[i] \in LowerLetters \cup {"-"}
  /\ name[1] # "-" /\ name[Len(name)] # "-"
  /\ \E i \in 1..Len(name) : name[i] = "-"
  /\ \A i \in 1..(Len(name) - 1) : ~(name[i] = "-" /\ name[i + 1] = "-")

isCssPropertyName(name, category) ==
  IF name # toLowerCase(name) THEN FALSE
  ELSE IF includes(name, <<" ">>) THEN FALSE
  ELSE IF ~includes(name, <<"-">>) THEN FALSE
  ELSE IF category = "CSS" THEN TRUE
  ELSE isHyphenatedWords(name)

htmlAttributes ==
  {<<"a", "c", "c", "e", "s", "s", "k", "e", "y">>,
   <<"a", "u", "t", "o", "c", "a", "p", "i", "t", "a", "l", "i", "z", "e">>,
   <<"a", "u", "t", "o", "f", "o", "c", "u", "s">>,
   <<"c", "o", "n", "t", "e", "n", "t", "e", "d", "i", "t", "a", "b", "l", "e">>,
   <<"d", "i", "r">>, <<"d", "r", "a", "g", "g", "a", "b", "l", "e">>,
   <<"e", "n", "t", "e", "r", "k", "e", "y", "h", "i", "n", "t">>,
   <<"h", "i", "d", "d", "e", "n">>, <<"i", "n", "e", "r", "t">>,
   <<"i", "n", "p", "u", "t", "m", "o", "d", "e">>, <<"l", "a", "n", "g">>,
   <<"p", "o", "p", "o", "v", "e", "r">>, <<"s", "p", "e", "l", "l", "c", "h", "e", "c", "k">>,
   <<"t", "a", "b", "i", "n", "d", "e", "x">>, <<"t", "i", "t", "l", "e">>,
   <<"t", "r", "a", "n", "s", "l", "a", "t", "e">>}

cssKeywords ==
  {<<"a", "l", "l">>, <<"a", "p", "p", "e", "a", "r", "a", "n", "c", "e">>,
   <<"a", "z", "i", "m", "u", "t", "h">>, <<"b", "a", "c", "k", "f", "a", "c", "e">>,
   <<"b", "a", "s", "e", "l", "i", "n", "e">>, <<"b", "o", "t", "t", "o", "m">>,
   <<"c", "a", "p", "t", "i", "o", "n">>, <<"c", "l", "e", "a", "r">>, <<"c", "l", "i", "p">>,
   <<"c", "o", "l", "o", "r">>, <<"c", "o", "n", "t", "e", "n", "t">>,
   <<"c", "u", "r", "s", "o", "r">>, <<"d", "i", "r", "e", "c", "t", "i", "o", "n">>,
   <<"d", "i", "s", "p", "l", "a", "y">>, <<"e", "l", "e", "v", "a", "t", "i", "o", "n">>,
   <<"f", "i", "l", "t", "e", "r">>, <<"f", "l", "e", "x">>, <<"f", "l", "o", "a", "t">>,
   <<"f", "o", "n", "t">>, <<"g", "a", "p">>, <<"g", "r", "i", "d">>,
   <<"h", "e", "i", "g", "h", "t">>, <<"h", "y", "p", "h", "e", "n", "s">>,
   <<"i", "c", "o", "n">>, <<"i", "s", "o", "l", "a", "t", "i", "o", "n">>,
   <<"l", "e", "f", "t">>, <<"m", "a", "r", "g", "i", "n">>, <<"m", "a", "s", "k">>,
   <<"o", "f", "f", "s", "e", "t">>, <<"o", "p", "a", "c", "i", "t", "y">>,
   <<"o", "r", "d", "e", "r">>, <<"o", "r", "p", "h", "a", "n", "s">>,
   <<"o", "u", "t", "l", "i", "n", "e">>, <<"o", "v", "e", "r", "f", "l", "o", "w">>,
   <<"p", "a", "d", "d", "i", "n", "g">>,
   <<"p", "e", "r", "s", "p", "e", "c", "t", "i", "v", "e">>,
   <<"p", "o", "s", "i", "t", "i", "o", "n">>, <<"q", "u", "o", "t", "e", "s">>,
   <<"r", "e", "s", "i", "z", "e">>, <<"r", "i", "g", "h", "t">>,
   <<"r", "o", "t", "a", "t", "e">>, <<"s", "c", "a", "l", "e">>, <<"t", "o", "p">>,
   <<"t", "r", "a", "n", "s", "f", "o", "r", "m">>,
   <<"t", "r", "a", "n", "s", "i", "t", "i", "o", "n">>,
   <<"t", "r", "a", "n", "s", "l", "a", "t", "e">>,
   <<"v", "i", "s", "i", "b", "i", "l", "i", "t", "y">>, <<"w", "i", "d", "o", "w", "s">>,
   <<"w", "i", "d", "t", "h">>, <<"z", "o", "o", "m">>}

isSingleWordProperty(name, category) ==
  IF includes(name, <<" ">>) \/ includes(name, <<"-">>) THEN FALSE
  ELSE IF name # toLowerCase(name) THEN FALSE
  ELSE IF category = "CSS" THEN TRUE
  ELSE IF name \in htmlAttributes THEN TRUE
  ELSE name \in cssKeywords

\* of a name without "()": the names considered here are not names of methods
formatFeatureName(name, category) ==
  IF name = <<>> THEN name
  ELSE IF normalizeCodeTags(name) # name THEN normalizeCodeTags(name)
  ELSE IF includes(name, <<Backtick>>) THEN name
  ELSE IF startsWith(name, <<"<">>) /\ includes(name, <<">">>) THEN wrapWithBackticks(name)
  ELSE IF startsWith(name, <<"@">>) THEN wrapWithBackticks(name)
  ELSE IF isAttributeSyntax(name) THEN wrapWithBackticks(name)
  ELSE IF isCssPropertyName(name, category) THEN wrapWithBackticks(name)
  ELSE IF isSingleWordProperty(name, category) THEN wrapWithBackticks(name)
  ELSE name

(***************************************************************************)
(* The merge of normalize-data.  sources holds the loaded files: caniuse    *)
(* and webFeatures as the sequences of <id, feature> that Object.entries   *)
(* gives, mdnBcd as the sequence of <path, compat> that extractAllMdnFeatures*)
(* gives for the allowed categories, usage as the usage file.  features is  *)
(* the Map, a sequence of <key, value> in insertion order.  A feature       *)
(* carries the fields that the merge reads or writes after creation, and    *)
(* its support and usage.                                                  *)
(***************************************************************************)
\* the position of key in the map, 0 when the map does not have it
mapIndex(map, key) ==
  IF \E i \in 1..Len(map) : map[i].key = key
  THEN CHOOSE i \in 1..Len(map) : map[i].key = key
  ELSE 0

\* map.set(key, value): an existing key keeps its position
mapSet(map, key, value) ==
  IF mapIndex(map, key) # 0
  THEN [map EXCEPT ![mapIndex(map, key)] = [key |-> key, value |-> value]]
  ELSE Append(map, [key |-> key, value |-> value])

WfPrefix == <<"w", "f", "-">>
MdnPrefix == <<"m", "d", "n", "-">>

NoBaseline == "false"

\* the try block of processCaniuse throws: stats[browser] of a feature without stats
caniuseThrows(feature) == feature.stats = UndefinedObject

\* the usage of a feature: the calculated usage with its type
usageOfType(usageData, type) ==
  [global |-> usageData.global, byBrowser |-> usageData.byBrowser, type |-> type]

caniuseRecord(id, feature, support, usage) ==
  [id |-> id,
   source |-> "caniuse",
   name |-> normalizeCodeTags(feature.title),
   category |-> mapCaniuseCategory(feature.categories),
   mdn |-> UndefinedString,
   support |-> support,
   usage |-> usageOfType(calculateActualUsage(feature, support, usage), "actual"),
   baseline |-> NoBaseline,
   sourceData |-> [primary |-> [source |-> "caniuse", id |-> id],
                   supplementary |-> <<>>]]

\* the normalized feature of the try block of processCaniuse
normalizeCaniuse(id, feature, usage) ==
  caniuseRecord(id, feature,
                [b \in TargetBrowserSet |-> extractCaniuseBrowserSupport(feature.stats, b)],
                usage)

\* the first of caniuseIds that the map has, as a position in the map; 0 for none
RECURSIVE explicitTarget(_, _, _)
explicitTarget(map, caniuseIds, k) ==
  IF k > Len(caniuseIds) THEN 0
  ELSE IF mapIndex(map, caniuseIds[k]) # 0 THEN mapIndex(map, caniuseIds[k])
  ELSE explicitTarget(map, caniuseIds, k + 1)

\* the lowest of the positions, 0 for none
lowest(positions) ==
  IF positions = {} THEN 0 ELSE CHOOSE i \in positions : \A j \in positions : i <= j

\* the first feature of the map that is a likely duplicate of candidate; 0 for none
similarTarget(map, candidate) ==
  lowest({i \in 1..Len(map) :
            areLikelyDuplicates(candidate, [id |-> map[i].key, name |-> map[i].value.name])})

\* variant: the supplementary entry is recorded twice
supplementWithWebFeatures_Twice(feature, wfFeature, wfId) ==
  [feature EXCEPT
     !.baseline = IF wfFeature.status.baseline # NoBaseline
                  THEN wfFeature.status.baseline ELSE @,
     !.sourceData.supplementary =
        @ \o <<[source |-> "webfeatures", id |-> wfId, matched |-> "exact"],
               [source |-> "webfeatures", id |-> wfId, matched |-> "exact"]>>]

supplementWithWebFeatures(feature, wfFeature, wfId) ==
  [feature EXCEPT
     !.baseline = IF wfFeature.status.baseline # NoBaseline
                  THEN wfFeature.status.baseline ELSE @,
     !.sourceData.supplementary =
        Append(@, [source |-> "webfeatures", id |-> wfId, matched |-> "exact"])]

webFeatureRecord(wfId, wfFeature, support, usage) ==
  [id |-> WfPrefix \o wfId,
   source |-> "webfeatures",
   name |-> normalizeCodeTags(wfFeature.name),
   category |-> "Other",
   mdn |-> UndefinedString,
   support |-> support,
   usage |-> usageOfType(estimateUsage(support, usage, UndefinedObject), "estimated"),
   baseline |-> wfFeature.status.baseline,
   sourceData |-> [primary |-> [source |-> "webfeatures", id |-> wfId],
                   supplementary |-> <<>>]]

createFeatureFromWebFeatures(wfId, wfFeature, usage) ==
  webFeatureRecord(wfId, wfFeature,
                   resolveSupport([b \in TargetBrowserSet |->
                     extractWebFeaturesBrowserSupport(wfFeature.status.support, b)]),
                   usage)

\* the first position if there is one, else the second
orElse(first, second) == IF first # 0 THEN first ELSE second

\* the feature that the record is merged into, by the explicit ids first and by
\* similarity second, as a position in the map; 0 for none
webFeatureTarget(map, wfId, wfFeature) ==
  orElse(explicitTarget(map, wfFeature.caniuse, 1),
         similarTarget(map, [id |-> wfId, name |-> wfFeature.name]))

\* the try block of processWebFeatures throws: supplementWithWebFeatures and
\* createFeatureFromWebFeatures both read wfFeature.status.baseline and
\* wfFeature.status.support before they change anything
webFeatureThrows(wfFeature) == wfFeature.status = UndefinedObject

\* mdnToWfMap.get(path): the last web feature that lists the path, as a position in
\* sources.webFeatures; 0 for none
linkedWebFeature(webFeatures, path) ==
  LET listing == {k \in 1..Len(webFeatures) :
                    \E c \in 1..Len(webFeatures[k].feature.compat_features) :
                      webFeatures[k].feature.compat_features[c] = path}
  IN IF listing = {} THEN 0 ELSE CHOOSE k \in listing : \A j \in listing : j <= k

mdnNameOf(path, compat) ==
  IF Truthy(compat.description) THEN compat.description ELSE inferNameFromMdnPath(path)

\* the feature found through the web feature at position linked of the file: by its
\* caniuse ids, else as its own record; 0 for none
linkedTarget(map, webFeatures, linked) ==
  IF linked = 0 THEN 0
  ELSE orElse(explicitTarget(map, webFeatures[linked].feature.caniuse, 1),
              mapIndex(map, WfPrefix \o webFeatures[linked].id))

\* the feature that the record is merged into: through the web feature that lists the
\* path, else by similarity; 0 for none
mdnTarget(map, webFeatures, path, compat) ==
  orElse(linkedTarget(map, webFeatures, linkedWebFeature(webFeatures, path)),
         similarTarget(map, [id |-> path, name |-> mdnNameOf(path, compat)]))

supplementWithMdn(feature, mdnPath, compat) ==
  [feature EXCEPT
     !.mdn = IF Truthy(compat.mdn_url) THEN compat.mdn_url ELSE @,
     !.sourceData.supplementary =
        Append(@, [source |-> "mdnbcd", id |-> mdnPath, matched |-> "via-webfeatures"])]

\* createFeatureFromMdn throws: support[browser] of a statement without support
mdnCreateThrows(compat) == compat.support = UndefinedObject

mdnRecord(mdnPath, compat, support, category, usage) ==
  [id |-> MdnPrefix \o mdnPath,
   source |-> "mdnbcd",
   name |-> formatFeatureName(mdnNameOf(mdnPath, compat), category),
   category |-> category,
   mdn |-> compat.mdn_url,
   support |-> support,
   usage |-> usageOfType(estimateUsage(support, usage, UndefinedObject), "estimated"),
   baseline |-> NoBaseline,
   sourceData |-> [primary |-> [source |-> "mdnbcd", id |-> mdnPath],
                   supplementary |-> <<>>]]

createFeatureFromMdn(mdnPath, compat, usage) ==
  mdnRecord(mdnPath, compat,
            resolveSupport([b \in TargetBrowserSet |->
              IF has(compat.support, b)
              THEN extractMdnBrowserSupport(compat.support[b], b)
              ELSE UndefinedObject]),
            inferCategoryFromMdnPath(mdnPath),
            usage)

StageOrder == <<"loaded", "caniuse", "webFeatures", "mdnBcd", "merged">>

\* the records that a stage loops over
recordsOf(stageName) ==
  IF stageName \in {"caniuse", "webFeatures", "mdnBcd"} THEN sources[stageName] ELSE <<>>

\* main goes on to the next stage, whose first statement sets its total
EnterStage ==
  /\ \E k \in 1..(Len(StageOrder) - 1) :
       /\ step.stage = StageOrder[k]
       /\ step.i = Len(recordsOf(step.stage))
       /\ step' = [stage |-> StageOrder[k + 1], i |-> 0]
       /\ stats' = IF StageOrder[k + 1] = "merged" THEN stats
                   ELSE [stats EXCEPT ![StageOrder[k + 1]].total =
                           Len(recordsOf(StageOrder[k + 1]))]
  /\ UNCHANGED <<sources, features, call, ret, files>>
  /\ UNCHANGED notifyVars

\* one pass of the loop of processCaniuse
ProcessCaniuse ==
  /\ step.stage = "caniuse"
  /\ step.i < Len(sources.caniuse)
  /\ LET id == sources.caniuse[step.i + 1].id
         feature == sources.caniuse[step.i + 1].feature
     IN IF caniuseThrows(feature)
        THEN /\ features' = features
             /\ stats' = [stats EXCEPT !.caniuse.errors = @ + 1]
        ELSE /\ features' = mapSet(features, id, normalizeCaniuse(id, feature, sources.usage))
             /\ stats' = [stats EXCEPT !.caniuse.processed = @ + 1]
  /\ step' = [step EXCEPT !.i = @ + 1]
  /\ UNCHANGED <<sources, call, ret, files>>
  /\ UNCHANGED notifyVars

\* one pass of the loop of processWebFeatures
ProcessWebFeatures ==
  /\ step.stage = "webFeatures"
  /\ step.i < Len(sources.webFeatures)
  /\ LET wfId == sources.webFeatures[step.i + 1].id
         wfFeature == sources.webFeatures[step.i + 1].feature
         target == webFeatureTarget(features, wfId, wfFeature)
     IN IF webFeatureThrows(wfFeature)
        THEN /\ features' = features
             /\ stats' = [stats EXCEPT !.webFeatures.errors = @ + 1]
        ELSE IF target # 0
        THEN /\ features' = [features EXCEPT ![target].value =
                               supplementWithWebFeatures(@, wfFeature, wfId)]
             /\ stats' = [stats EXCEPT !.webFeatures.merged = @ + 1]
        ELSE /\ features' = mapSet(features, WfPrefix \o wfId,
                                   createFeatureFromWebFeatures(wfId, wfFeature,
                                                                sources.usage))
             /\ stats' = [stats EXCEPT !.webFeatures.new = @ + 1]
  /\ step' = [step EXCEPT !.i = @ + 1]
  /\ UNCHANGED <<sources, call, ret, files>>
  /\ UNCHANGED notifyVars

\* one pass of the loop of processMdnBcd
ProcessMdnBcd ==
  /\ step.stage = "mdnBcd"
  /\ step.i < Len(sources.mdnBcd)
  /\ LET path == sources.mdnBcd[step.i + 1].path
         compat == sources.mdnBcd[step.i + 1].compat
         target == mdnTarget(features, sources.webFeatures, path, compat)
     IN IF target # 0
        THEN /\ features' = [features EXCEPT ![target].value =
                               supplementWithMdn(@, path, compat)]
             /\ stats' = [stats EXCEPT !.mdnBcd.merged = @ + 1]
        ELSE IF mdnCreateThrows(compat)
        THEN /\ features' = features
             /\ stats' = [stats EXCEPT !.mdnBcd.errors = @ + 1]
        ELSE /\ features' = mapSet(features, MdnPrefix \o path,
                                   createFeatureFromMdn(path, compat, sources.usage))
             /\ stats' = [stats EXCEPT !.mdnBcd.new = @ + 1]
  /\ step' = [step EXCEPT !.i = @ + 1]
  /\ UNCHANGED <<sources, call, ret, files>>
  /\ UNCHANGED notifyVars

Call_estimateUsage ==
  /\ CallPending("estimateUsage")
  /\ ret' = [returned |-> TRUE,
             value |-> estimateUsage(call.args[1], call.args[2], call.args[3])]
  /\ UNCHANGED <<sources, features, stats, step, call, files>>
  /\ UNCHANGED notifyVars

(***************************************************************************)
(* Usage estimation of one support record against one usage table          *)
(***************************************************************************)
MaxUsageEntries == 2

UsageVersions == {<<"1", "4">>, <<"1", "5", ".", "2">>, <<"1", "5", ".", "4">>, <<"1", "5", ".", "6">>, <<"1", "7">>}

UsageKeys == {<<"1", "5", ".", "2", "-", "1", "5", ".", "6">>, <<"1", "5", ".", "4">>, <<"0">>, <<"T", "P">>}

UsageAmounts == {50000, 12345}

UsageDetails ==
  {SupportDetail(current, firstFull, firstPartial, <<>>) :
     current \in {"y", "a", "n"},
     firstFull \in UsageVersions \cup {UndefinedString},
     firstPartial \in UsageVersions \cup {UndefinedString}}

UsageTables ==
  UNION {[1..n -> UsageKeys \X UsageAmounts] : n \in 1..MaxUsageEntries}

UsagePreCalculated ==
  {UndefinedObject, [full |-> 0, partial |-> 0], [full |-> 923749, partial |-> 10050]}

InitUsage ==
  /\ NotifyIdle
  /\ sources = NoSources
  /\ features = <<>>
  /\ stats = ZeroStats
  /\ step = [stage |-> "idle", i |-> 0]
  /\ \E detail \in UsageDetails, table \in UsageTables, preCalculated \in UsagePreCalculated :
       call = [fn |-> "estimateUsage",
               args |-> <<[b \in TargetBrowserSet |->
                             IF b = "chrome" THEN detail ELSE UnsupportedDetail],
                          [data |-> [chrome |-> table]],
                          preCalculated>>]
  /\ ret = NoReturn
  /\ files = NoFiles

NextUsage == Call_estimateUsage

SpecUsage == InitUsage /\ [][NextUsage]_vars

\* the estimate was made from a table of one range entry, without pre-calculated values
OneRangeEstimated ==
  /\ Returned("estimateUsage")
  /\ call.args[3] = UndefinedObject
  /\ Len(call.args[2].data.chrome) = 1
  /\ includes(call.args[2].data.chrome[1][1], <<"-">>)

RangeStartOf(key) == split(key, {"-"})[1]
RangeEndOf(key) == split(key, {"-"})[2]

\* C20: in usage estimation, a version range that full support does not cover (first-full
\* strictly after the range end) is counted by the three-way rule on first-partial: the
\* whole range is partial if first-partial is at or before the range start, none of it if
\* first-partial is strictly after the range end, a linear fraction if it is inside.
C20_PartialRuleForUncoveredRanges ==
  OneRangeEstimated =>
    LET detail == call.args[1].chrome
        key == call.args[2].data.chrome[1][1]
        usage == call.args[2].data.chrome[1][2]
        expected ==
          IF compareVersions(detail.firstPartial, RangeStartOf(key)) <= 0 THEN usage
          ELSE IF compareVersions(detail.firstPartial, RangeEndOf(key)) > 0 THEN 0
          ELSE proportionalUsage(usage, RangeStartOf(key), RangeEndOf(key),
                                 detail.firstPartial)
    IN (/\ Truthy(detail.firstFull)
        /\ compareVersions(detail.firstFull, RangeEndOf(key)) > 0
        /\ Truthy(detail.firstPartial))
         => ret.value.global.partial = roundToHundredths(expected)

(***************************************************************************)
(* Merges of small source files                                            *)
(***************************************************************************)
GridPath == <<"c", "s", "s", ".", "p", "r", "o", "p", "e", "r", "t", "i", "e", "s", ".", "d", "i", "s", "p", "l", "a", "y", ".", "g", "r", "i", "d">>

\* the primary feature "grid": full support from Chrome 57, global usage 92%
CaniuseGrid ==
  [id |-> <<"g", "r", "i", "d">>,
   feature |-> [title |-> <<"C", "S", "S", " ", "G", "r", "i", "d", " ", "L", "a", "y", "o", "u", "t">>,
                categories |-> <<<<"C", "S", "S">>>>,
                stats |-> [chrome |-> <<<<<<"5", "7">>, <<"y">>>>,
                                        <<<<"5", "6">>, <<"p", " ", "d", " ", "#", "1">>>>>>,
                           firefox |-> <<<<<<"5", "2">>, <<"y">>>>>>],
                usage_perc_y |-> 920000]]

\* a primary feature whose id has the form of a secondary record's id
CaniusePrefixed ==
  [id |-> <<"w", "f", "-", "c", "s", "s", "-", "x">>,
   feature |-> [title |-> <<"X", " ", "t", "h", "i", "n", "g">>,
                categories |-> <<<<"J", "S", " ", "A", "P", "I">>>>,
                stats |-> [chrome |-> <<<<<<"1">>, <<"a", " ", "x">>>>>>],
                usage_perc_y |-> 300000,
                usage_perc_a |-> 12345]]

\* a primary feature without stats
CaniuseBroken ==
  [id |-> <<"b", "a", "d">>,
   feature |-> [title |-> <<"B", "a", "d">>,
                categories |-> <<>>,
                stats |-> UndefinedObject]]

CaniuseCatalogue == <<CaniuseGrid, CaniusePrefixed, CaniuseBroken>>

\* the secondary record of grid, with its explicit links
WebFeatureGrid ==
  [id |-> <<"g", "r", "i", "d">>,
   feature |-> [name |-> <<"G", "r", "i", "d">>,
                caniuse |-> <<<<"g", "r", "i", "d">>>>,
                compat_features |-> <<GridPath>>,
                status |-> [baseline |-> "high",
                            support |-> [chrome |-> <<"5", "7">>,
                                         firefox |-> <<"5", "2">>]]]]

\* a secondary record with support in Safari only
WebFeatureCssX ==
  [id |-> <<"c", "s", "s", "-", "x">>,
   feature |-> [name |-> <<"O", "t", "h", "e", "r", " ", "n", "a", "m", "e">>,
                caniuse |-> <<>>,
                compat_features |-> <<>>,
                status |-> [baseline |-> "low",
                            support |-> [safari |-> <<"1", "5", ".", "4">>]]]]

\* a secondary record without status
WebFeatureBroken ==
  [id |-> <<"b", "r", "o", "k", "e", "n">>,
   feature |-> [name |-> <<"B", "r", "o", "k", "e", "n">>,
                caniuse |-> <<<<"g", "r", "i", "d">>>>,
                compat_features |-> <<>>,
                status |-> UndefinedObject]]

WebFeatureCatalogue == <<WebFeatureGrid, WebFeatureCssX, WebFeatureBroken>>

\* the tertiary record of display: grid, fully supported from Chrome 57
MdnGrid ==
  [path |-> GridPath,
   compat |-> [description |-> UndefinedString,
               mdn_url |-> <<"m", "d", "n", "/", "g", "r", "i", "d">>,
               support |-> [chrome |-> <<[version_added |-> <<"5", "7">>,
                                          flags |-> FALSE,
                                          partial_implementation |-> FALSE]>>]]]

\* a tertiary record whose inferred name is "X thing"
MdnHeader ==
  [path |-> <<"h", "t", "t", "p", ".", "h", "e", "a", "d", "e", "r", "s", ".", "x", "_", "t", "h", "i", "n", "g">>,
   compat |-> [description |-> UndefinedString,
               mdn_url |-> UndefinedString,
               support |-> [firefox |-> <<[version_added |-> VersionAddedTrue,
                                           flags |-> FALSE,
                                           partial_implementation |-> FALSE]>>,
                            safari |-> <<[version_added |-> <<"1", "5", ".", "4">>,
                                          flags |-> FALSE,
                                          partial_implementation |-> TRUE],
                                         [version_added |-> <<"1", "4">>,
                                          flags |-> TRUE,
                                          partial_implementation |-> FALSE]>>]]]

\* a tertiary record without support
MdnBroken ==
  [path |-> <<"c", "s", "s", ".", "p", "r", "o", "p", "e", "r", "t", "i", "e", "s", ".", "b", "r", "o", "k", "e", "n">>,
   compat |-> [description |-> <<"A", " ", "<", "c", "o", "d", "e", ">", "b", "r", "o", "k", "e", "n", "<", "/", "c", "o", "d", "e", ">", " ", "o", "n", "e">>,
               mdn_url |-> UndefinedString,
               support |-> UndefinedObject]]

MdnCatalogue == <<MdnGrid, MdnHeader, MdnBroken>>

MergeUsage ==
  [data |-> [chrome |-> <<<<<<"5", "6">>, 20000>>, <<<<"5", "7">>, 250000>>>>,
             safari |-> <<<<<<"1", "5", ".", "2", "-", "1", "5", ".", "6">>, 50000>>, <<<<"1", "6">>, 30000>>>>,
             ios_saf |-> <<<<<<"1", "5", ".", "2", "-", "1", "5", ".", "6">>, 80000>>>>]]

\* the records of a catalogue at the chosen positions, in the catalogue's order
RECURSIVE chosenFrom(_, _, _)
chosenFrom(catalogue, positions, k) ==
  IF k > Len(catalogue) THEN <<>>
  ELSE (IF k \in positions THEN <<catalogue[k]>> ELSE <<>>)
         \o chosenFrom(catalogue, positions, k + 1)

FilesOf(catalogue) ==
  {chosenFrom(catalogue, positions, 1) : positions \in SUBSET (1..Len(catalogue))}

InitMerge ==
  /\ NotifyIdle
  /\ \E caniuse \in FilesOf(CaniuseCatalogue),
        webFeatures \in FilesOf(WebFeatureCatalogue),
        mdnBcd \in FilesOf(MdnCatalogue) :
       sources = [caniuse |-> caniuse, webFeatures |-> webFeatures, mdnBcd |-> mdnBcd,
                  usage |-> MergeUsage]
  /\ features = <<>>
  /\ stats = ZeroStats
  /\ step = [stage |-> "loaded", i |-> 0]
  /\ call = NoCall
  /\ ret = NoReturn
  /\ files = NoFiles

NextMerge ==
  \/ EnterStage
  \/ ProcessCaniuse
  \/ ProcessWebFeatures
  \/ ProcessMdnBcd

SpecMerge == InitMerge /\ [][NextMerge]_vars

\* the stage has processed all its records
StageDone(stageName) ==
  \E k, j \in 1..Len(StageOrder) :
    /\ StageOrder[k] = stageName
    /\ StageOrder[j] = step.stage
    /\ \/ k < j
       \/ k = j /\ step.i = Len(recordsOf(stageName))

\* the source record that the feature was created from
PrimaryRecord(feature) ==
  LET source == feature.sourceData.primary.source
      id == feature.sourceData.primary.id
  IN IF source = "caniuse"
     THEN sources.caniuse[CHOOSE k \in 1..Len(sources.caniuse) : sources.caniuse[k].id = id]
     ELSE IF source = "webfeatures"
     THEN sources.webFeatures[CHOOSE k \in 1..Len(sources.webFeatures) :
                                sources.webFeatures[k].id = id]
     ELSE sources.mdnBcd[CHOOSE k \in 1..Len(sources.mdnBcd) : sources.mdnBcd[k].path = id]

\* the feature's source has data of its own for the browser
HasNativeData(feature, browser) ==
  LET source == feature.sourceData.primary.source
      record == PrimaryRecord(feature)
  IN IF source = "caniuse" THEN has(record.feature.stats, browser)
     ELSE IF source = "webfeatures"
     THEN Truthy(get(record.feature.status.support, browser, UndefinedString))
     ELSE /\ has(record.compat.support, browser)
          /\ extractMdnBrowserSupport(record.compat.support[browser], browser)
               # UndefinedObject

\* the browser that the browser's support is inferred from has data
ParentHasData(feature, browser) ==
  /\ has(inferenceMap, browser)
  /\ HasNativeData(feature, inferenceMap[browser])

TenBrowsers ==
  {"chrome", "firefox", "safari", "edge", "opera", "ie", "ios_saf", "and_chr", "samsung",
   "and_ff"}

IsNoneDetail(detail) == detail.current = "n" /\ detail.versions = <<>>
IsUnknownDetail(detail) == detail.current = "u" /\ detail.versions = <<>>

C15_IdsNeverCollide ==
  [][\A i \in 1..Len(features) :
       /\ i <= Len(features')
       /\ features'[i].key = features[i].key
       /\ features'[i].value.sourceData.primary = features[i].value.sourceData.primary]_vars

\* C16: no step of the merge changes the id, source, name, support, usage or primary
\* provenance of a record of the map; support and usage computed from a higher-priority
\* source are not overwritten by a later stage.
C16_MergeKeepsSupportAndUsage ==
  [][\A i \in 1..Len(features) :
       /\ i <= Len(features')
       /\ features'[i].value.id = features[i].value.id
       /\ features'[i].value.source = features[i].value.source
       /\ features'[i].value.name = features[i].value.name
       /\ features'[i].value.support = features[i].value.support
       /\ features'[i].value.usage = features[i].value.usage
       /\ features'[i].value.sourceData.primary = features[i].value.sourceData.primary]_vars

\* the files hold the primary feature grid and the tertiary record of display: grid
GridInBoth ==
  /\ \E k \in 1..Len(sources.caniuse) : sources.caniuse[k] = CaniuseGrid
  /\ \E k \in 1..Len(sources.mdnBcd) : sources.mdnBcd[k] = MdnGrid

\* C17: with the primary feature grid and the tertiary record at
\* css.properties.display.grid, the merge appends a supplementary entry of the tertiary
\* record to the primary feature and creates no record mdn-css.properties.display.grid.
C17_GridIsLinked ==
  (GridInBoth /\ StageDone("mdnBcd")) =>
    /\ mapIndex(features, MdnPrefix \o GridPath) = 0
    /\ \E e \in 1..Len(features[mapIndex(features, CaniuseGrid.id)].value
                         .sourceData.supplementary) :
         LET entry == features[mapIndex(features, CaniuseGrid.id)].value
                        .sourceData.supplementary[e]
         IN entry.source = "mdnbcd" /\ entry.id = GridPath

Counts(stageName) == stats[stageName]

\* the positions of the map whose record the step changes
Changed == {j \in 1..Len(features) : j <= Len(features') /\ features'[j] # features[j]}

\* the step appends one supplementary entry to one record and changes nothing else
OneEntryAppended ==
  /\ Len(features') = Len(features)
  /\ \E j \in 1..Len(features) :
       /\ Changed = {j}
       /\ features'[j].key = features[j].key
       /\ Len(features'[j].value.sourceData.supplementary)
            = Len(features[j].value.sourceData.supplementary) + 1
       /\ SubSeq(features'[j].value.sourceData.supplementary, 1,
                 Len(features[j].value.sourceData.supplementary))
            = features[j].value.sourceData.supplementary

\* the step puts one new record into the map, under key, and changes no other key
OneRecordInserted(key, primaryId) ==
  /\ mapIndex(features', key) # 0
  /\ features'[mapIndex(features', key)].value.sourceData.primary.id = primaryId
  /\ features'[mapIndex(features', key)].value.sourceData.supplementary = <<>>
  /\ \A j \in 1..Len(features) :
       features[j].key # key => mapIndex(features', features[j].key) # 0
                                  /\ features'[mapIndex(features', features[j].key)]
                                       = features[j]
  /\ \A j \in 1..Len(features') :
       features'[j].key # key => mapIndex(features, features'[j].key) # 0

\* what a pass of a stage's loop does to the counts and to the map
RecordHandled ==
  step'.i = step.i + 1 =>
    IF step.stage = "caniuse"
    THEN \/ /\ stats' = [stats EXCEPT !.caniuse.errors = @ + 1]
            /\ features' = features
         \/ /\ stats' = [stats EXCEPT !.caniuse.processed = @ + 1]
            /\ OneRecordInserted(sources.caniuse[step.i + 1].id,
                                 sources.caniuse[step.i + 1].id)
    ELSE LET id == IF step.stage = "webFeatures"
                   THEN sources.webFeatures[step.i + 1].id
                   ELSE sources.mdnBcd[step.i + 1].path
             prefix == IF step.stage = "webFeatures" THEN WfPrefix ELSE MdnPrefix
         IN \/ /\ stats' = [stats EXCEPT ![step.stage].errors = @ + 1]
               /\ features' = features
            \/ /\ stats' = [stats EXCEPT ![step.stage].merged = @ + 1]
               /\ OneEntryAppended
            \/ /\ stats' = [stats EXCEPT ![step.stage].new = @ + 1]
               /\ OneRecordInserted(prefix \o id, id)

\* the counts of the stages that are over
CountsExact ==
  /\ StageDone("caniuse") =>
       /\ Counts("caniuse").total = Len(sources.caniuse)
       /\ Counts("caniuse").total = Counts("caniuse").processed + Counts("caniuse").errors
  /\ \A stageName \in {"webFeatures", "mdnBcd"} :
       StageDone(stageName) =>
         /\ Counts(stageName).total = Len(sources[stageName])
         /\ Counts(stageName).total
              = Counts(stageName).new + Counts(stageName).merged + Counts(stageName).errors

CrossingVersions ==
  {<<"1", "4">>, <<"1", "5", ".", "1">>, <<"1", "5", ".", "5">>, <<"1", "5", ".", "5", ".", "1">>, <<"1", "5", ".", "9">>, <<"1", "5", ".", "1", "0">>, <<"1", "6", ".", "0">>, <<"1", "7">>}

CrossingRanges ==
  {<<"1", "5", ".", "1", "-", "1", "6", ".", "0">>,
   <<"1", "5", ".", "2", "-", "1", "5", ".", "6">>,
   <<"1", "5", ".", "9", "-", "1", "5", ".", "1", "2">>}

\* the support of one browser whose first full (or first partial) version is the crossing
CrossingSupport(kind, version) ==
  [b \in TargetBrowserSet |->
     IF b # "chrome" THEN UnsupportedDetail
     ELSE IF kind = "full" THEN SupportDetail("y", version, UndefinedString, <<>>)
     ELSE SupportDetail("a", UndefinedString, version, <<>>)]

InitCrossing ==
  /\ NotifyIdle
  /\ sources = NoSources
  /\ features = <<>>
  /\ stats = ZeroStats
  /\ step = [stage |-> "idle", i |-> 0]
  /\ \E kind \in {"full", "partial"}, version \in CrossingVersions,
        range \in CrossingRanges, usage \in UsageAmounts :
       call = [fn |-> "estimateUsage",
               args |-> <<CrossingSupport(kind, version),
                          [data |-> [chrome |-> <<<<range, usage>>>>]],
                          UndefinedObject>>]
  /\ ret = NoReturn
  /\ files = NoFiles

NextCrossing == Call_estimateUsage

SpecCrossing == InitCrossing /\ [][NextCrossing]_vars

\* the crossing version and the kind of support of the estimate
CrossingKind == IF Truthy(call.args[1].chrome.firstFull) THEN "full" ELSE "partial"

CrossingVersion ==
  IF CrossingKind = "full" THEN call.args[1].chrome.firstFull
  ELSE call.args[1].chrome.firstPartial

\* the version is inside the range of the estimate, by the comparator
InsideRange(version) ==
  /\ compareVersions(RangeStartOf(call.args[2].data.chrome[1][1]), version) <= 0
  /\ compareVersions(version, RangeEndOf(call.args[2].data.chrome[1][1])) <= 0

\* the amount of the range's usage that is counted when the crossing is the version
CountedAt(version) ==
  estimateUsage(CrossingSupport(CrossingKind, version), call.args[2], call.args[3]).global.total

\* C21: for every usage range and every crossing version inside the range by the
\* comparator, the counted part of the range's usage is between none and all of it, and
\* for crossing versions v1 <= v2 inside the range the part counted for v2 is not greater
\* than the part counted for v1.
C21_FractionMonotone ==
  (Returned("estimateUsage") /\ InsideRange(CrossingVersion)) =>
    /\ ret.value.global.total >= 0
    /\ ret.value.global.total <= roundToHundredths(call.args[2].data.chrome[1][2])
    /\ \A v1 \in CrossingVersions :
         (InsideRange(v1) /\ compareVersions(v1, CrossingVersion) <= 0)
           => ret.value.global.total <= CountedAt(v1)

(***************************************************************************)
(* The global usage of a feature, actual or estimated                      *)
(***************************************************************************)
Call_calculateActualUsage ==
  /\ CallPending("calculateActualUsage")
  /\ ret' = [returned |-> TRUE,
             value |-> calculateActualUsage(call.args[1], call.args[2], call.args[3])]
  /\ UNCHANGED <<sources, features, stats, step, call, files>>
  /\ UNCHANGED notifyVars

\* usage_perc_y and usage_perc_a of the primary features, each present or not
ActualAmounts == {0, 12345, 12350, 923749}

ActualFeatures ==
  {[usage_perc_y |-> y, usage_perc_a |-> a] : y \in ActualAmounts, a \in ActualAmounts}
    \cup {[usage_perc_y |-> y] : y \in ActualAmounts}
    \cup {[usage_perc_a |-> a] : a \in ActualAmounts}
    \cup {[title |-> <<>>]}

ActualUsageData ==
  {UndefinedObject, [data |-> [chrome |-> <<<<<<"1", "5", ".", "4">>, 12345>>>>]]}

InitTotals ==
  \/ InitUsage
  \/ /\ NotifyIdle
     /\ sources = NoSources
     /\ features = <<>>
     /\ stats = ZeroStats
     /\ step = [stage |-> "idle", i |-> 0]
     /\ \E feature \in ActualFeatures, detail \in UsageDetails, usageData \in ActualUsageData :
          call = [fn |-> "calculateActualUsage",
                  args |-> <<feature,
                             [b \in TargetBrowserSet |->
                                IF b = "chrome" THEN detail ELSE UnsupportedDetail],
                             usageData>>]
     /\ ret = NoReturn
     /\ files = NoFiles

NextTotals ==
  \/ Call_estimateUsage
  \/ Call_calculateActualUsage

SpecTotals == InitTotals /\ [][NextTotals]_vars

\* C22: for every usage computed for a feature, actual or estimated, the rounded total
\* differs from the sum of the rounded full and the rounded partial by at most 0.01
\* (one hundredth is 1 in the results' unit).
C22_TotalWithinOneHundredth ==
  (Returned("estimateUsage") \/ Returned("calculateActualUsage")) =>
    Abs(ret.value.global.total - (ret.value.global.full + ret.value.global.partial)) <= 1

C22_Witness ==
  /\ Returned("calculateActualUsage")
  /\ ret.value.global.full > 0
  /\ ret.value.global.partial > 0
  /\ ret.value.global.total = ret.value.global.full + ret.value.global.partial + 1

(***************************************************************************)
(* Comparison of every pair of a set of version strings                    *)
(***************************************************************************)
Call_compareVersions ==
  /\ CallPending("compareVersions")
  /\ ret' = [returned |-> TRUE, value |-> compareVersions(call.args[1], call.args[2])]
  /\ UNCHANGED <<sources, features, stats, step, call, files>>
  /\ UNCHANGED notifyVars

ComparedVersions ==
  {<<"T", "P">>,
   <<"a", "l", "l">>,
   <<"0">>,
   <<"1", "5">>,
   <<"1", "5", ".", "0">>,
   <<"1", "5", ".", "2">>,
   <<"1", "5", ".", "1", "0">>,
   <<"1", "6">>,
   <<"1", ".", "5">>,
   <<"1", "-", "5">>,
   <<"1", "5", ".", "2", "-", "1", "5", ".", "6">>,
   <<"p", "r", "e", "v", "i", "e", "w">>}

\* the version strings that are dotted numbers
NumericVersions ==
  {v \in ComparedVersions : v # <<>> /\ \A i \in 1..Len(v) : v[i] \in Digits \cup {"."}}

InitCompare ==
  /\ NotifyIdle
  /\ sources = NoSources
  /\ features = <<>>
  /\ stats = ZeroStats
  /\ step = [stage |-> "idle", i |-> 0]
  /\ \E v1 \in ComparedVersions, v2 \in ComparedVersions :
       call = [fn |-> "compareVersions", args |-> <<v1, v2>>]
  /\ ret = NoReturn
  /\ files = NoFiles

NextCompare == Call_compareVersions

SpecCompare == InitCompare /\ [][NextCompare]_vars

\* C23: compareVersions is a strict total order over version strings: a version compares
\* equal to itself, compare(a, b) is the opposite of compare(b, a), compare(a, b) is 0
\* only for the same version string, compare(a, b) <= 0 and compare(b, c) <= 0 give
\* compare(a, c) <= 0, "TP" is above and "all" is below every numeric version.
C23_StrictTotalOrder ==
  Returned("compareVersions") =>
    /\ call.args[1] = call.args[2] => ret.value = 0
    /\ ret.value = -compareVersions(call.args[2], call.args[1])
    /\ ret.value = 0 => call.args[1] = call.args[2]
    /\ \A c \in ComparedVersions :
         (ret.value <= 0 /\ compareVersions(call.args[2], c) <= 0)
           => compareVersions(call.args[1], c) <= 0
    /\ (call.args[1] = Str_TP /\ call.args[2] \in NumericVersions) => ret.value = 1
    /\ (call.args[1] = Str_all /\ call.args[2] \in NumericVersions) => ret.value = -1

(***************************************************************************)
(* Output (steps 6 and 7 of main): the index and one file per feature      *)
(***************************************************************************)
BROWSER_SHORT_NAMES ==
  [chrome |-> "chr", firefox |-> "ffx", safari |-> "saf", edge |-> "edg", opera |-> "opr",
   ie |-> "ie", ios_saf |-> "ios_saf", and_chr |-> "an_chr", samsung |-> "smsg",
   and_ff |-> "an_ff"]

EXCLUDED_BROWSERS == {"opera", "ie", "samsung", "and_ff"}

\* the browser of a short name
browserOf(shortName) == CHOOSE b \in TargetBrowserSet : BROWSER_SHORT_NAMES[b] = shortName

\* the short names of a set of browsers
shortNames(browsers) == {BROWSER_SHORT_NAMES[b] : b \in browsers}

quickStatus(browserSupport) ==
  IF browserSupport = UndefinedObject THEN "n"
  ELSE IF browserSupport.current \in {"y", "x"} THEN "y"
  ELSE IF browserSupport.current = "a" THEN "a"
  ELSE IF browserSupport.current = "p" THEN "p"
  ELSE "n"

extractQuickSupport(support) ==
  [b \in TargetBrowserSet |-> quickStatus(get(support, b, UndefinedObject))]

\* the quick support without the excluded browsers, under the short names
shortSupport(quickSupport) ==
  [s \in shortNames(DOMAIN quickSupport \ EXCLUDED_BROWSERS) |-> quickSupport[browserOf(s)]]

\* the entry of one feature; the description is not part of the modelled records
indexEntry(id, feature) ==
  [id |-> id,
   name |-> feature.name,
   category |-> feature.category,
   support |-> shortSupport(extractQuickSupport(feature.support)),
   usage |-> feature.usage.global.total,
   baseline |-> feature.baseline]

generateIndex(map) == [k \in 1..Len(map) |-> indexEntry(map[k].key, map[k].value)]

\* the support written to a feature file: short names, and no versions array
cleanedSupport(support) ==
  [s \in shortNames(DOMAIN support) |->
     [current |-> support[browserOf(s)].current,
      firstFull |-> support[browserOf(s)].firstFull,
      firstPartial |-> support[browserOf(s)].firstPartial]]

\* a usage breakdown under the short names
shortUsage(usageByBrowser) ==
  [s \in shortNames(DOMAIN usageByBrowser) |-> usageByBrowser[browserOf(s)]]

\* the content of a feature file; caniuseUrl is not part of the modelled records
cleanedFeature(feature) ==
  [feature EXCEPT
     !.support = cleanedSupport(@),
     !.usage.byBrowser = [desktop |-> shortUsage(@.desktop), mobile |-> shortUsage(@.mobile)]]

\* writeOutput up to the index: index.json is written, its size is recorded (here the
\* number of its entries)
WriteIndex ==
  /\ step.stage = "merged"
  /\ files' = [files EXCEPT !.index = generateIndex(features), !.indexExists = TRUE]
  /\ stats' = [stats EXCEPT !.output.indexSize = Len(features)]
  /\ step' = [stage |-> "writing", i |-> 0]
  /\ UNCHANGED <<sources, features, call, ret>>
  /\ UNCHANGED notifyVars

\* one pass of the loop of writeOutput
WriteFeature ==
  /\ step.stage = "writing"
  /\ step.i < Len(features)
  /\ files' = [files EXCEPT !.details =
                 mapSet(@, features[step.i + 1].key, cleanedFeature(features[step.i + 1].value))]
  /\ step' = [step EXCEPT !.i = @ + 1]
  /\ UNCHANGED <<sources, features, stats, call, ret>>
  /\ UNCHANGED notifyVars

\* the end of writeOutput
FinishOutput ==
  /\ step.stage = "writing"
  /\ step.i = Len(features)
  /\ stats' = [stats EXCEPT !.output.features = step.i]
  /\ step' = [stage |-> "done", i |-> 0]
  /\ UNCHANGED <<sources, features, call, ret, files>>
  /\ UNCHANGED notifyVars

\* a write (mkdirSync, writeFileSync) throws: main catches and exits with code 1
WriteFails ==
  /\ \/ step.stage = "merged"
     \/ step.stage = "writing" /\ step.i < Len(features)
  /\ step' = [step EXCEPT !.stage = "failed"]
  /\ UNCHANGED <<sources, features, stats, call, ret, files>>
  /\ UNCHANGED notifyVars

\* the registry of an earlier run, in which grid had a usage of 91%
PriorFeatures ==
  <<[key |-> CaniuseGrid.id,
     value |-> normalizeCaniuse(CaniuseGrid.id,
                                [CaniuseGrid.feature EXCEPT !.usage_perc_y = 910000],
                                MergeUsage)]>>

\* the artifacts of that run
PriorFiles ==
  [index |-> generateIndex(PriorFeatures),
   indexExists |-> TRUE,
   details |-> [k \in 1..Len(PriorFeatures) |->
                  [key |-> PriorFeatures[k].key,
                   value |-> cleanedFeature(PriorFeatures[k].value)]]]

InitOutput ==
  /\ NotifyIdle
  /\ \E caniuse \in FilesOf(CaniuseCatalogue),
        webFeatures \in FilesOf(WebFeatureCatalogue),
        mdnBcd \in FilesOf(MdnCatalogue) :
       sources = [caniuse |-> caniuse, webFeatures |-> webFeatures, mdnBcd |-> mdnBcd,
                  usage |-> MergeUsage]
  /\ features = <<>>
  /\ stats = ZeroStats
  /\ step = [stage |-> "loaded", i |-> 0]
  /\ call = NoCall
  /\ ret = NoReturn
  /\ files \in {NoFiles, PriorFiles}

NextOutput ==
  \/ EnterStage
  \/ ProcessCaniuse
  \/ ProcessWebFeatures
  \/ ProcessMdnBcd
  \/ WriteIndex
  \/ WriteFeature
  \/ FinishOutput
  \/ WriteFails

SpecOutput == InitOutput /\ [][NextOutput]_vars

\* the file of the feature at position k of the registry
FileOf(k) == files.details[mapIndex(files.details, features[k].key)].value

\* the file carries the detail of the browser, the list of versions included (a file
\* without the list carries an empty one)
CarriesDetail(file, feature, browser) ==
  /\ has(file.support, BROWSER_SHORT_NAMES[browser])
  /\ file.support[BROWSER_SHORT_NAMES[browser]].current = feature.support[browser].current
  /\ file.support[BROWSER_SHORT_NAMES[browser]].firstFull = feature.support[browser].firstFull
  /\ file.support[BROWSER_SHORT_NAMES[browser]].firstPartial
       = feature.support[browser].firstPartial
  /\ get(file.support[BROWSER_SHORT_NAMES[browser]], "versions", <<>>)
       = feature.support[browser].versions

\* C24: the detail record of a feature is lossless: apart from the short browser names it
\* carries every field of the feature, for each of the ten browsers the current status,
\* the first-full and first-partial versions and the list of recent version entries.
C24_DetailIsLossless ==
  step.stage = "done" =>
    \A k \in 1..Len(features) :
      /\ \A field \in DOMAIN features[k].value \ {"support", "usage"} :
           has(FileOf(k), field) /\ FileOf(k)[field] = features[k].value[field]
      /\ FileOf(k).usage.global = features[k].value.usage.global
      /\ FileOf(k).usage.type = features[k].value.usage.type
      /\ FileOf(k).usage.byBrowser.desktop = shortUsage(features[k].value.usage.byBrowser.desktop)
      /\ FileOf(k).usage.byBrowser.mobile = shortUsage(features[k].value.usage.byBrowser.mobile)
      /\ \A b \in TargetBrowserSet : CarriesDetail(FileOf(k), features[k].value, b)

\* index.json and every feature file are the ones generated from the registry
AllNew ==
  /\ files.indexExists
  /\ files.index = generateIndex(features)
  /\ \A k \in 1..Len(features) :
       /\ mapIndex(files.details, features[k].key) # 0
       /\ FileOf(k) = cleanedFeature(features[k].value)

\* the output directory is as the run found it
AllPrior == files \in {NoFiles, PriorFiles}

\* C25: the write stage leaves no partial-success artifact: if it fails at any point,
\* index.json and all feature files are the newly generated ones, or all of them are
\* still the artifacts of the prior run.
C25_NoPartialArtifact == step.stage = "failed" => (AllNew \/ AllPrior)

(***************************************************************************)
(* Errors of the tracking store                                            *)
(***************************************************************************)
\* the run is at a change of a feature of the index that has active trackings, and the
\* step leaves the change without entering the loop over them: the query returned an error
QueryFailed ==
  /\ pc = "changes"
  /\ currentIndex.features[changeReport.changes[ci].featureId].present
  /\ Len(queryActiveTrackings(store, changeReport.changes[ci].featureId)) > 0
  /\ <<pc, ci>>' # <<pc, ci>>
  /\ pc' # "trackings"

\* the run has ended without reaching its summary
RunAborted == pc' = "idle" /\ ci' = 0 /\ stage' = stage

\* C26: an unreachable tracking store is fatal: when a tracking query returns an error
\* the notification run aborts; it neither goes on to the next change nor finishes as a
\* completed run.
C26_QueryErrorAborts == [][QueryFailed => RunAborted]_vars

(***************************************************************************)
(* Extraction of one browser's support from a primary table of versions    *)
(* or from tertiary statements                                             *)
(***************************************************************************)
Call_extractCaniuseBrowserSupport ==
  /\ CallPending("extractCaniuseBrowserSupport")
  /\ ret' = [returned |-> TRUE,
             value |-> extractCaniuseBrowserSupport(call.args[1], call.args[2])]
  /\ UNCHANGED <<sources, features, stats, step, call, files>>
  /\ UNCHANGED notifyVars

Call_extractMdnBrowserSupport ==
  /\ CallPending("extractMdnBrowserSupport")
  /\ ret' = [returned |-> TRUE,
             value |-> extractMdnBrowserSupport(call.args[1], call.args[2])]
  /\ UNCHANGED <<sources, features, stats, step, call, files>>
  /\ UNCHANGED notifyVars

MaxTableEntries == 2

TableVersions == {<<"9">>, <<"1", "0">>, <<"1", "0", ".", "1">>}

\* status strings: a base status, with modifiers after it
TableStatuses ==
  {<<"y">>,
   <<"a">>,
   <<"n">>,
   <<"p">>,
   <<"u">>,
   <<"y", " ", "x">>,
   <<"a", " ", "#", "2">>,
   <<"n", " ", "d">>,
   <<"a", " ", "x", " ", "#", "2">>}

\* a table of eleven versions, all fully supported
LongTable == <<<<<<"1">>, <<"y">>>>, <<<<"2">>, <<"y">>>>, <<<<"3">>, <<"y">>>>, <<<<"4">>, <<"y">>>>, <<<<"5">>, <<"y">>>>, <<<<"6">>, <<"y">>>>, <<<<"7">>, <<"y">>>>, <<<<"8">>, <<"y">>>>, <<<<"9">>, <<"y">>>>, <<<<"1", "0">>, <<"y">>>>, <<<<"1", "1">>, <<"y">>>>>>

\* the tables of distinct versions, in any order of the keys
VersionTables ==
  {table \in UNION {[1..n -> TableVersions \X TableStatuses] : n \in 1..MaxTableEntries} :
     \A i, j \in 1..Len(table) : table[i][1] = table[j][1] => i = j}
    \cup {LongTable}

MdnStatements ==
  {[version_added |-> VersionAddedTrue, flags |-> FALSE, partial_implementation |-> FALSE],
   [version_added |-> VersionAddedFalse, flags |-> FALSE, partial_implementation |-> FALSE],
   [version_added |-> <<"1", "5", ".", "4">>, flags |-> FALSE, partial_implementation |-> FALSE],
   [version_added |-> <<"1", "5", ".", "4">>, flags |-> FALSE, partial_implementation |-> TRUE],
   [version_added |-> <<"1", "4">>, flags |-> TRUE, partial_implementation |-> FALSE]}

MdnStatementLists == UNION {[1..n -> MdnStatements] : n \in 1..MaxTableEntries}

InitExtract ==
  /\ NotifyIdle
  /\ sources = NoSources
  /\ features = <<>>
  /\ stats = ZeroStats
  /\ step = [stage |-> "idle", i |-> 0]
  /\ \/ \E table \in VersionTables :
          call = [fn |-> "extractCaniuseBrowserSupport",
                  args |-> <<[chrome |-> table], "chrome">>]
     \/ \E statements \in MdnStatementLists :
          call = [fn |-> "extractMdnBrowserSupport", args |-> <<statements, "chrome">>]
  /\ ret = NoReturn
  /\ files = NoFiles

NextExtract ==
  \/ Call_extractCaniuseBrowserSupport
  \/ Call_extractMdnBrowserSupport

SpecExtract == InitExtract /\ [][NextExtract]_vars

\* the base status of a status string: the status letter that it starts with
BaseStatus(support) == support[1]

\* the entries of the table whose base status is the given one
EntriesOfStatus(table, status) == {i \in 1..Len(table) : BaseStatus(table[i][2]) = <<status>>[1]}

\* the version of the entries that compares smallest, undefined without entries
SmallestVersion(table, entries) ==
  IF entries = {} THEN UndefinedString
  ELSE table[CHOOSE i \in entries :
               \A j \in entries : compareVersions(table[i][1], table[j][1]) <= 0][1]

\* the entry of the table whose version compares largest
LargestEntry(table) ==
  CHOOSE i \in 1..Len(table) :
    \A j \in 1..Len(table) : compareVersions(table[i][1], table[j][1]) >= 0

\* the status string that the table has for the version
SupportOf(table, version) == table[CHOOSE i \in 1..Len(table) : table[i][1] = version][2]

\* C27: primary extraction classifies each version by the base status of its status
\* string, the modifiers stripped ("y x" is y, "a #2" is a, "n d" is n, "p" is p);
\* first-full and first-partial are the smallest versions classified full and partial,
\* current is the status of the largest version, at most 10 recent versions are kept.
C27_BaseStatusClassifies ==
  Returned("extractCaniuseBrowserSupport") =>
    /\ \A k \in 1..Len(ret.value.versions) :
         ret.value.versions[k].status
           = BaseStatus(SupportOf(call.args[1].chrome, ret.value.versions[k].version))
    /\ ret.value.firstFull
         = SmallestVersion(call.args[1].chrome, EntriesOfStatus(call.args[1].chrome, "y"))
    /\ ret.value.firstPartial
         = SmallestVersion(call.args[1].chrome, EntriesOfStatus(call.args[1].chrome, "a"))
    /\ ret.value.current
         = BaseStatus(call.args[1].chrome[LargestEntry(call.args[1].chrome)][2])
    /\ Len(ret.value.versions) = Min(Len(call.args[1].chrome), RecentVersions)

\* C28: tertiary extraction of statements that include one with version_added = true
\* yields a detail whose current status is full; the result is null only when every
\* statement has version_added false or null.
C28_AddedTrueIsFull ==
  Returned("extractMdnBrowserSupport") =>
    /\ (\E i \in 1..Len(call.args[1]) : call.args[1][i].version_added = VersionAddedTrue)
         => (ret.value # UndefinedObject /\ ret.value.current = "y")
    /\ ret.value = UndefinedObject
         => \A i \in 1..Len(call.args[1]) : call.args[1][i].version_added = VersionAddedFalse

(***************************************************************************)
(* Provenance of the merges                                                *)
(***************************************************************************)
\* the entry that the step appends to the record at position j
AppendedEntry(j) ==
  features'[j].value.sourceData.supplementary[Len(features'[j].value.sourceData.supplementary)]

\* the secondary record at hand matches the record at position j by an explicit id or by
\* equality of the normalized ids or names
ExactMatch(j) ==
  \/ explicitTarget(features, sources.webFeatures[step.i + 1].feature.caniuse, 1) = j
  \/ normalizeFeatureId(sources.webFeatures[step.i + 1].id) = normalizeFeatureId(features[j].key)
  \/ normalizeFeatureName(sources.webFeatures[step.i + 1].feature.name)
       = normalizeFeatureName(features[j].value.name)

\* the tertiary record at hand reaches the record at position j through the secondary
\* record that lists its path
LinkedMatch(j) ==
  linkedTarget(features, sources.webFeatures,
               linkedWebFeature(sources.webFeatures, sources.mdnBcd[step.i + 1].path)) = j

\* the tag of the entry appended to the record at position j tells how the match was made
TagTellsMatch(j) ==
  /\ AppendedEntry(j).matched = "via-webfeatures"
       => (step.stage = "mdnBcd" /\ LinkedMatch(j))
  /\ AppendedEntry(j).matched = "exact"
       => IF step.stage = "webFeatures" THEN ExactMatch(j)
          ELSE normalizeFeatureId(sources.mdnBcd[step.i + 1].path)
                 = normalizeFeatureId(features[j].key)

\* C29: a supplementary provenance entry records how its match was established: it is
\* tagged via-secondary-link only if the tertiary record was matched through a secondary
\* record's explicit link, and exact only if the match came from an explicit id mapping or
\* from equality of the normalized forms, so that a match by similarity alone has another
\* tag than a linked one.
C29_TagTellsMatch ==
  [][(step.stage \in {"webFeatures", "mdnBcd"} /\ step'.i = step.i + 1 /\ OneEntryAppended)
       => \A j \in Changed : TagTellsMatch(j)]_vars

(***************************************************************************)
(* Specification of one detection and one notification run for a single    *)
(* tracking holding a usage-threshold trigger on full or partial usage,    *)
(* over snapshots whose usage is split between full and partial support    *)
(***************************************************************************)
ThresholdTriggers ==
  {[BlankTrigger EXCEPT !.type = "usage_threshold", !.usageType = usageType,
                        !.threshold = threshold] :
     usageType \in {"full", "partial"}, threshold \in 1..MaxUsage}

\* index entries whose usage (the total) is at least the full usage of the detail file
ThresholdRecords ==
  {r \in [present : {TRUE}, usage : EvalUsageValues, full : EvalUsageValues,
          support : {[b \in IndexBrowserSet |-> "n"]}, baseline : {"false"}] :
     r.full <= r.usage}

ThresholdSnapshots ==
  {[f \in Features |-> IF f = "abc" THEN r ELSE EvalOther] : r \in ThresholdRecords}

InitThreshold ==
  /\ \E snapshot \in ThresholdSnapshots :
       previousIndex = [exists |-> TRUE, features |-> snapshot]
  /\ \E snapshot \in ThresholdSnapshots :
       currentIndex = [exists |-> TRUE, features |-> snapshot]
  /\ changeReport = NoReport
  /\ \E trigger \in ThresholdTriggers :
       store = addTracking([t \in TrackingIds |-> NoRow], "abc", "user@example.com",
                           <<trigger>>)
  /\ stage = "built"
  /\ pc = "idle"
  /\ ci = 0
  /\ trackingsQ = <<>>
  /\ ti = 0
  /\ sent = [t \in TrackingIds |-> 0]
  /\ outcome = NoOutcome
  /\ pendingRetry = {}
  /\ PipelineIdle

NextThreshold ==
  \/ DetectChanges
  \/ StartNotify
  \/ QueryTrackings
  \/ ProcessTracking

SpecThreshold == InitThreshold /\ [][NextThreshold]_vars

\* the percentage of the snapshot's record that the trigger of the tracking is about
TriggerValue(t, record) ==
  IF TriggerOf(t).usageType = "full" THEN usageGlobal(record).full
  ELSE usageGlobal(record).partial

\* C30: for a usage-threshold trigger on full (or partial) usage, the current value less
\* the reported delta is the full (partial) percentage of the previous run, and the
\* trigger fires only if that percentage was below the threshold in the previous run and
\* is at or above it now.
C30_FullPartialCrossing ==
  \A t \in TrackingIds :
    (/\ HoldsOne(t, "usage_threshold")
     /\ TriggerOf(t).usageType \in {"full", "partial"}
     /\ Evaluated(t))
    => /\ (HasEntry(store[t].feature_id) /\ EntryOf(store[t].feature_id).hasUsage)
            => TriggerValue(t, CurrOf(t)) - EntryOf(store[t].feature_id).usage.delta
                 = TriggerValue(t, PrevOf(t))
       /\ Fired(t) => /\ TriggerValue(t, PrevOf(t)) < TriggerOf(t).threshold
                      /\ TriggerValue(t, CurrOf(t)) >= TriggerOf(t).threshold

====
